---- MODULE Spec2Model ----
(***************************************************************************)
(* Agent Orchestration Engine of OCI-COPILOT.                              *)
(*                                                                         *)
(* Twelve specifications share this module:                                *)
(*   Spec         one turn of a chat session: the app builds the initial   *)
(*                turn state, the graph driver runs the stages of          *)
(*                core/graph.py over it and merges their overlays, the     *)
(*                memory stages read and write the memory directory.       *)
(*   SpecSession  several turns of one session, with the session state and *)
(*                the memory directory carried from turn to turn.          *)
(*   SpecPlan     the plan pipeline as pure functions: the Planner's       *)
(*                normalisation of an LM-authored plan                     *)
(*                (_enforce_all_compartments, _apply_safety_flags), then   *)
(*                CodeGen, then the hand-over to the Executor.             *)
(*   SpecSupervisor  the supervisor entered on the states its branches are *)
(*                written for, the graph running on from there.            *)
(*   SpecTemplate the Planner run twice on one query: the analysis of the  *)
(*                query, then the template strategy.                       *)
(*   SpecStore    the saves of core/memory/store.py on the files of the    *)
(*                memory directory, step by step, with crashes.            *)
(*   SpecGateway  one call of call_llm (core/llm_manager.py) over the      *)
(*                providers, and the stage that keeps its answer.          *)
(*   SpecShortTerm  the two lists of core/memory/short_term.py.            *)
(*   SpecHistory  save_conversation_turn of core/memory/store.py on        *)
(*                conversation_history.json.                               *)
(*   SpecCache    the memory manager and its cache                         *)
(*                (core/memory/memory_manager.py, core/memory/cache.py)    *)
(*                under gets, saves and a clock.                           *)
(*   SpecLearn    learn_from_pattern of core/memory/long_term.py.          *)
(*   SpecExecutor executor_node (nodes/executor.py) on one plan, the steps *)
(*                of a multi-step plan one by one.                         *)
(***************************************************************************)
EXTENDS Integers, Sequences, FiniteSets, TLC

(***************************************************************************)
(* Bounds of the model (not program constants).                            *)
(***************************************************************************)
\* steps an LM-authored multi-step plan may carry
MaxSteps == 2
\* items a generated artifact may leave in `results`
MaxItems == 2
\* turns of one chat session
MaxTurns == 2
\* saves followed on the memory directory
MaxSaves == 3
\* entries added to each list of the short-term memory
MaxAdds == 22
\* conversation turns saved to conversation_history.json
MaxSavedTurns == 52
\* steps of the clock the cache reads
MaxTicks == 2
\* writes to the backing sources of the cache, all sources together
MaxWrites == 2
\* keys of the largest payload handed to learn_from_pattern
MaxKeys == 10
\* calls of learn_from_pattern
MaxLearns == 3

(***************************************************************************)
(* Action names.  Python's startswith / lower are modelled over a finite   *)
(* universe of action strings by a table of (prefix class, lower-cased     *)
(* form).                                                                  *)
(***************************************************************************)
NoAction == "<absent>"

\* nodes/planner.py:425-436, the keys of the required-parameter table
KnownActions ==
  {"create_vcn", "create_subnet", "create_bucket", "create_volume",
   "launch_instance", "create_compartment", "create_group", "create_user",
   "delete_bucket", "create_load_balancer"}

\* nodes/codegen_node.py:535, the action CodeGen gives a batch-optimised plan
BatchAction == "batch_create_bucket"

\* str.lower() on the action universe
Lower(a) == IF a = "LIST_VOLUMES" THEN "list_volumes" ELSE a

\* a.startswith('list_')   (case-sensitive)
StartsWithList(a) == a \in {"list_instances", "list_volumes"}

\* a.startswith('create_')
StartsWithCreate(a) ==
  a \in {"create_vcn", "create_subnet", "create_bucket", "create_volume",
         "create_compartment", "create_group", "create_user",
         "create_load_balancer", "create_policy"}

(***************************************************************************)
(* Parameters.  A parameter value is abstracted to what                    *)
(* _apply_safety_flags distinguishes: the key is absent, the value is      *)
(* None, the value is blank after str().strip(), or it is a usable value.  *)
(***************************************************************************)
ParamNames ==
  {"compartment_id", "cidr_block", "display_name", "vcn_id", "name",
   "availability_domain", "size_in_gbs", "shape", "image_id", "subnet_id",
   "description", "shape_name", "subnet_ids", "extra"}

\* nodes/planner.py:425-436, the table itself
KnownRequired(a) ==
  CASE a = "create_vcn" -> <<"compartment_id", "cidr_block", "display_name">>
    [] a = "create_subnet" -> <<"compartment_id", "vcn_id", "cidr_block">>
    [] a = "create_bucket" -> <<"compartment_id", "name">>
    [] a = "create_volume" -> <<"compartment_id", "availability_domain", "size_in_gbs">>
    [] a = "launch_instance" -> <<"compartment_id", "shape", "image_id", "subnet_id">>
    [] a = "create_compartment" -> <<"compartment_id", "name", "description">>
    [] a = "create_group" -> <<"compartment_id", "name", "description">>
    [] a = "create_user" -> <<"compartment_id", "name", "description">>
    [] a = "delete_bucket" -> <<"name">>
    [] a = "create_load_balancer" -> <<"compartment_id", "shape_name", "subnet_ids">>
    [] OTHER -> << >>

Range(s) == {s[i] : i \in 1..Len(s)}

NoParams == [p \in ParamNames |-> "absent"]

\* dict.update(other): keys of `other` that are present overwrite
UpdateParams(params, other) ==
  [p \in ParamNames |-> IF other[p] # "absent" THEN other[p] ELSE params[p]]

(***************************************************************************)
(* Plans.  `present = FALSE` is Python's None.  params_kind tells whether  *)
(* the plan has a "params" key holding a dict, holding null, or no such    *)
(* key; `params` and `ac` (params.all_compartments) are meaningful for     *)
(* "dict" only.  has_missing tells whether the "missing_parameters" key    *)
(* exists.                                                                 *)
(***************************************************************************)
AcVals == {"absent", "false", "true"}
NoPlan ==
  [present |-> FALSE, action |-> NoAction, params_kind |-> "absent",
   params |-> NoParams, ac |-> "absent", has_steps |-> FALSE, steps |-> << >>,
   has_missing |-> FALSE, missing_parameters |-> << >>,
   requires_confirmation |-> FALSE, safety_tier |-> "unset",
   oci_code |-> FALSE]

\* nodes/planner.py:361-380
EnforceAllCompartments(p) ==
  IF ~p.present THEN p
  ELSE IF p.action # NoAction /\ StartsWithList(Lower(p.action))
    THEN [p EXCEPT !.params_kind = "dict",
                   !.params = IF p.params_kind = "dict" THEN p.params ELSE NoParams,
                   !.ac = "true"]
  ELSE IF p.has_steps
    THEN [p EXCEPT !.steps =
            [i \in 1..Len(p.steps) |->
               IF p.steps[i].action # NoAction /\ StartsWithList(Lower(p.steps[i].action))
               THEN [p.steps[i] EXCEPT !.ac = "true"]
               ELSE p.steps[i]]]
  ELSE p

\* the check without its third disjunct, str(value).strip() == ""
IsMissingValNoBlank(v) == v \in {"absent", "null"}

\* nodes/planner.py:544, the test applied to one required parameter
IsMissingVal(v) == v \in {"absent", "null", "blank"}

HasExtracted(analysis) == \E q \in ParamNames : analysis.extracted[q] # "absent"

\* nodes/planner.py:543-545, the loop over the required parameters
ProgrammaticMissing(action, params) ==
  SelectSeq(KnownRequired(action), LAMBDA q : IsMissingVal(params[q]))

\* nodes/planner.py:512-520, merging the extracted parameters into the plan
MergeExtracted(plan, analysis) ==
  IF HasExtracted(analysis)
  THEN [plan EXCEPT !.params_kind = "dict",
                    !.params = UpdateParams(IF plan.params_kind = "dict"
                                            THEN plan.params ELSE NoParams,
                                            analysis.extracted),
                    !.ac = IF plan.params_kind = "dict" THEN plan.ac ELSE "absent"]
  ELSE plan

\* nodes/planner.py:526-527:
\* action.startswith(('create_', 'delete_', 'update_', 'launch_'))
IsMutating(plan, analysis) ==
  \/ analysis.is_mutating
  \/ StartsWithCreate(plan.action)
  \/ plan.action \in {"delete_bucket", "delete_volume", "update_bucket",
                      "launch_instance"}

\* _apply_safety_flags raises where Python does: update() on a null params
\* (line 519) and `param not in params` on a null params (line 544)
SafetyFlagsRaises(plan, analysis) ==
  /\ plan.present
  /\ plan.params_kind = "null"
  /\ \/ HasExtracted(analysis)
     \/ IsMutating(plan, analysis) /\ plan.action \in KnownActions

\* nodes/planner.py:498-572
ApplySafetyFlags(plan, analysis) ==
  IF ~plan.present THEN plan
  ELSE
    LET merged == MergeExtracted(plan, analysis)
        mut    == IsMutating(plan, analysis)
        flagged == [merged EXCEPT !.requires_confirmation = mut,
                                  !.safety_tier = IF mut THEN "destructive" ELSE "safe"]
    IN  IF mut /\ plan.action \in KnownActions
        THEN [flagged EXCEPT !.has_missing = TRUE,
                             !.missing_parameters =
                                ProgrammaticMissing(plan.action,
                                  IF merged.params_kind = "dict"
                                  THEN merged.params ELSE NoParams)]
        ELSE IF mut
        THEN [flagged EXCEPT !.has_missing = TRUE,
                             !.missing_parameters = plan.missing_parameters]
        ELSE [flagged EXCEPT !.has_missing = FALSE,
                             !.missing_parameters = << >>]

(***************************************************************************)
(* CodeGen on a plan.  `lm` is what the LM calls of the stage do: "ok",    *)
(* "raise" (an exception inside the stage's try block) or "batch_raise"    *)
(* (only the batch-optimisation call fails).  The result carries the plan  *)
(* of the overlay and whether the overlay sets plan_error.                 *)
(***************************************************************************)
CodegenLM == {"ok", "raise", "batch_raise"}

\* nodes/codegen_node.py:152-407, the single-step branch; 155-157, 164-167:
\* the local params after enforcement; 370-372: the destructive verbs
CodegenSingle(plan, lm) ==
  LET params == IF plan.params_kind = "dict" THEN plan.params ELSE NoParams
      ac     == IF StartsWithList(Lower(plan.action)) THEN "true"
                ELSE IF plan.params_kind = "dict" THEN plan.ac ELSE "absent"
      HasDestructiveVerb(a) == Lower(a) \in {"delete_bucket", "delete_volume"}
  IN  IF lm = "raise"
      THEN [plan |-> [NoPlan EXCEPT !.present = TRUE, !.action = plan.action,
                                    !.params_kind = "dict", !.params = params,
                                    !.ac = ac],
            plan_error |-> TRUE]
      ELSE [plan |-> [plan EXCEPT !.params_kind = "dict", !.params = params,
                                  !.ac = ac, !.oci_code = TRUE,
                                  !.safety_tier = IF HasDestructiveVerb(plan.action)
                                                  THEN "destructive" ELSE "safe"],
            plan_error |-> FALSE]

\* nodes/codegen_node.py:425-442
AreStepsSimilar(steps) ==
  /\ Len(steps) >= 2
  /\ \A i \in 2..Len(steps) :
        /\ steps[i].action = steps[1].action
        /\ steps[i].service = steps[1].service
  /\ steps[1].action \in {"create_bucket", "delete_bucket", "create_volume"}

\* nodes/codegen_node.py:558-593
GenerateIndividualStepCode(steps, lm) ==
  IF lm = "raise" /\ Len(steps) > 0
  THEN [plan |-> NoPlan, plan_error |-> TRUE]
  ELSE [plan |-> [NoPlan EXCEPT !.present = TRUE, !.has_steps = TRUE,
                                !.steps = [i \in 1..Len(steps) |->
                                             [steps[i] EXCEPT !.oci_code = TRUE]],
                                !.requires_confirmation = TRUE,
                                !.safety_tier = "destructive"],
        plan_error |-> FALSE]

\* nodes/codegen_node.py:445-555
GenerateOptimizedBatchCode(steps, lm) ==
  IF steps[1].action = "create_bucket" /\ lm = "ok"
  THEN [plan |-> [NoPlan EXCEPT !.present = TRUE, !.action = BatchAction,
                                !.params_kind = "dict", !.ac = steps[1].ac,
                                !.oci_code = TRUE],
        plan_error |-> FALSE]
  ELSE GenerateIndividualStepCode(steps, lm)

\* nodes/codegen_node.py:410-422
HandleMultiStepCodegen(plan, lm) ==
  IF AreStepsSimilar(plan.steps)
  THEN GenerateOptimizedBatchCode(plan.steps, lm)
  ELSE GenerateIndividualStepCode(plan.steps, lm)

\* nodes/codegen_node.py:122-162: which branch codegen_node takes
CodegenBranch(plan) ==
  IF ~plan.present THEN "no_plan"
  ELSE IF plan.oci_code THEN "has_code"
  ELSE IF plan.action # NoAction THEN "single"
  ELSE IF plan.has_steps /\ Len(plan.steps) > 0 THEN "multi"
  ELSE "unsupported"

\* nodes/codegen_node.py:122-407, the plan and plan_error of the overlay;
\* keep_error tells that the overlay has no plan_error key
CodegenNode(plan, lm) ==
  LET b == CodegenBranch(plan)
  IN  CASE b = "no_plan" -> [plan |-> NoPlan, plan_error |-> TRUE, keep_error |-> FALSE]
        [] b = "has_code" -> [plan |-> plan, plan_error |-> FALSE, keep_error |-> TRUE]
        [] b = "single" ->
             LET r == CodegenSingle(plan, lm)
             IN [plan |-> r.plan, plan_error |-> r.plan_error, keep_error |-> ~r.plan_error]
        [] b = "multi" ->
             LET r == HandleMultiStepCodegen(plan, lm)
             IN [plan |-> r.plan, plan_error |-> r.plan_error, keep_error |-> ~r.plan_error]
        [] OTHER -> [plan |-> NoPlan, plan_error |-> TRUE, keep_error |-> FALSE]

(***************************************************************************)
(* State.                                                                  *)
(*   node     position of the graph driver: the stage it enters next, or   *)
(*            "idle" (no turn running), "END", "aborted" (the stream       *)
(*            raised and app.py caught it)                                 *)
(*   state    cumulative turn state, the AgentState channels               *)
(*   entries  stages entered in the running turn                           *)
(*   sess     st.session_state of the app, the only state carried from     *)
(*            one turn to the next besides the memory directory            *)
(*   turn     turns started so far                                         *)
(*   disk     memory/conversation_history.json                             *)
(*   hist     history of the running turn, observed but never read by the  *)
(*            program                                                      *)
(*   pl       the plan pipeline of SpecPlan                                *)
(*   tw       the two Planner runs of SpecTemplate                         *)
(*   fs       the files of the memory directory in SpecStore               *)
(*   gw       one call of the LM gateway and what its caller keeps of it,  *)
(*            in SpecGateway                                               *)
(*   mem      the objects of core/memory in the memory specifications      *)
(*   ex       one run of the Executor on a plan, in SpecExecutor           *)
(***************************************************************************)
VARIABLES node, state, entries, sess, turn, disk, hist, pl, tw, fs, gw, mem, ex

vars == <<node, state, entries, sess, turn, disk, hist, pl, tw, fs, gw, mem, ex>>
graphVars == <<node, state, entries, sess, turn, disk, hist>>

(***************************************************************************)
(* SpecPlan: the plan pipeline on bounded LM-authored plans.               *)
(***************************************************************************)
PlIdle ==
  [pc |-> "idle", plan |-> NoPlan, lm_plan |-> NoPlan, analysis |-> [is_mutating |-> FALSE, extracted |-> NoParams],
   scoped |-> FALSE, plan_error |-> FALSE]

NoIntent ==
  [primary_resource |-> "unknown", action |-> "list", requires_filtering |-> FALSE,
   filter_conditions |-> << >>, oci_service |-> "unknown", is_mutating |-> FALSE,
   execution_type |-> "UNKNOWN", confidence |-> "low"]

TwIdle ==
  [pc |-> "idle", query |-> [verb |-> "none", word |-> "none", indicator |-> FALSE, cond |-> "none"], analysis |-> NoIntent, lm_calls |-> 0,
   runs |-> << >>]

\* the files of the memory directory, core/memory/store.py:26, 49, 72, 118
StoreFiles == {"short_term", "long_term", "user_preferences", "conversation_history"}

\* no save made: every file holds its first complete content
FsIdle ==
  [content |-> [f \in StoreFiles |-> [ver |-> 0, part |-> "complete"]],
   writing |-> "none", saves |-> 0, crashed |-> FALSE]

\* no LM call made
GwIdle ==
  [pc |-> "idle", caller |-> "none", selected |-> "gemini", tried |-> << >>,
   result |-> "none", artifact |-> "none", summary |-> "none"]

\* the memory objects as MemoryManager.__init__ makes them
\* (core/memory/memory_manager.py:15-19): nothing remembered, nothing cached
\* session ids handed to the memory manager (nodes/memory_context.py:22)
Sessions == {"s1", "s2"}

\* the keys of the four dictionaries: a kind and the identifier
\* load_memory_context reads it by (core/memory/memory_manager.py:26-37)
CacheKeys ==
  ({"conversation", "recent_actions"} \X Sessions)
  \cup {<<"user_preferences", "default_user">>, <<"project_context", "default_project">>}

\* a key the dictionary does not hold
NoEntry ==
  [present |-> FALSE, timestamp |-> 0, has_data |-> FALSE, data |-> 0,
   recent_actions |-> 0]

\* no call made on the memory manager yet
NoCall ==
  [op |-> "none", kind |-> "none", id |-> "none", had_entry |-> FALSE, age |-> 0,
   cached |-> 0, hit |-> FALSE, answer |-> 0, read_backing |-> FALSE, returned |-> 0,
   invalidated |-> FALSE]

\* pattern types: learn_from_pattern is called with the action of the turn
\* (core/memory/memory_manager.py:139)
PatternTypes == {"list_instances", "create_bucket"}

\* and memory/conversation_history.json not written yet
MemIdle ==
  [conversation_history |-> << >>, recent_actions |-> << >>,
   turns_added |-> 0, actions_added |-> 0,
   file |-> [readable |-> TRUE, records |-> << >>],
   saved |-> 0, load_failed |-> FALSE,
   now |-> 0, ticks |-> 0, cache |-> [k \in CacheKeys |-> NoEntry],
   prefs_saved |-> 0, project_updates |-> 0, reads |-> "none", dropped |-> {},
   last |-> NoCall,
   learning_patterns |-> [t \in PatternTypes |-> << >>], learns |-> 0,
   learnt |-> [op |-> "none", type |-> "none", payload |-> << >>, before |-> << >>]]

\* no plan handed to the Executor yet
ExIdle ==
  [pc |-> "idle", plan |-> [kind |-> "none", oci_code |-> FALSE,
                            compartment_id |-> FALSE, steps |-> << >>],
   tenancy |-> FALSE, i |-> 1, all_results |-> << >>,
   execution_errors |-> << >>, entered |-> << >>, ran |-> << >>,
   outcome |-> << >>,
   overlay |-> [has_result |-> FALSE, execution_result |-> << >>,
                execution_error |-> "none"]]

\* missing_parameters lists an LM may put in its plan
LMMissing == {<< >>, <<"extra">>, <<"compartment_id", "name">>}

\* what the parameter-extraction LM call may return for an action
ExtractedFor(a) ==
  {NoParams} \cup
  {[NoParams EXCEPT ![q] = v] : q \in Range(KnownRequired(a)), v \in {"value", "blank"}}

\* LM plans for a single action with its parameters: a value for each
\* required parameter of the action
ParamPlans ==
  LET ParamsOver(names) ==
        {[q \in ParamNames |-> IF q \in names THEN f[q] ELSE "absent"] :
           f \in [names -> {"absent", "null", "blank", "value"}]}
  IN
  UNION {
    {[NoPlan EXCEPT !.present = TRUE, !.action = a, !.params_kind = "dict",
                    !.params = ps, !.has_missing = (m # << >>),
                    !.missing_parameters = m] :
        ps \in ParamsOver(Range(KnownRequired(a))), m \in LMMissing}
    \cup
    {[NoPlan EXCEPT !.present = TRUE, !.action = a, !.params_kind = k,
                    !.has_missing = TRUE, !.missing_parameters = m] :
        k \in {"absent", "null"}, m \in LMMissing}
    : a \in KnownActions \cup {"update_bucket", "get_instance"}}

\* LM plans with a steps list, with or without a top-level action; LMSteps
\* are the steps an LM may author
StepPlans ==
  LET LMSteps ==
        {[action |-> a, service |-> "compute", ac |-> c, oci_code |-> FALSE] :
           a \in {"list_instances", "LIST_VOLUMES"}, c \in AcVals}
        \cup
        {[action |-> "create_bucket", service |-> v, ac |-> "absent",
          oci_code |-> FALSE] : v \in {"objectstorage", "compute"}}
  IN
  {[NoPlan EXCEPT !.present = TRUE, !.action = a, !.params_kind = k[1],
                  !.ac = k[2], !.has_steps = TRUE, !.steps = ss] :
     a \in {NoAction, "list_instances", "get_instance"},
     k \in ({"dict"} \X AcVals) \cup {<<"absent", "absent">>},
     ss \in (UNION {[1..n -> LMSteps] : n \in 0..MaxSteps})}

(***************************************************************************)
(* The graph: stages, the channels of AgentState, the app's session.       *)
(***************************************************************************)
Stages ==
  {"memory_context", "supervisor", "normalizer", "rag_retriever", "planner",
   "codegen", "verifier", "executor", "presentation_node", "memory_manager"}

\* app.py:814, the recursion_limit handed to the graph driver
RecursionLimit == 50

\* nodes/supervisor.py:126, the default of max_recursion
MaxRecursion == 20

\* core/memory/short_term.py:31, recent_turns is the last five turns
RecentTurns == 5

\* core/memory/store.py:109, turns kept in conversation_history.json
HistoryCap == 50

\* a turn as core/memory records it: the timestamp and state.get("intent");
\* "query", "action" and "result" are read from keys AgentState does not
\* have and are always the defaults
NoRecord == [present |-> FALSE, timestamp |-> 0, query |-> "", intent |-> "none"]

\* core/state.py:5-97, the channels the routing reads, with "none"/"unset"
\* for a key that is absent or None; execution_strategy is followed as the
\* rag_retriever writes it
IdleState ==
  [user_input |-> "blank", last_node |-> "none", next_step |-> "none",
   intent |-> "none", use_rag_chain |-> FALSE, plan |-> NoPlan,
   pending_plan |-> NoPlan, plan_error |-> FALSE, plan_valid |-> FALSE,
   verify_retries |-> 0, recursion_count |-> 0,
   confirmation_required |-> FALSE, confirmation_response |-> "none",
   parameter_gathering_required |-> FALSE,
   parameter_selection_response |-> "none", missing_parameters |-> << >>,
   action_cancelled |-> FALSE, execution_result |-> [kind |-> "none", items |-> << >>],
   execution_error |-> "none", memory_saved |-> "unset",
   memory_manager |-> [present |-> FALSE, conversation_history |-> << >>], recent_turns |-> << >>,
   presentation |-> "none", normalized_query |-> "unset",
   rag_result |-> << >>, rag_fallback |-> FALSE,
   execution_strategy |-> "none"]

\* st.session_state, app.py:746-760 and 819-824
IdleSess ==
  [confirmation_required |-> FALSE, confirmation_response |-> "none",
   parameter_gathering_required |-> FALSE,
   parameter_selection_response |-> "none", pending_plan |-> NoPlan,
   action_cancelled |-> FALSE, use_rag_chain |-> FALSE]

IdleHist ==
  [presented |-> FALSE, after_pres |-> << >>, planned_rc |-> FALSE,
   approved |-> FALSE, cg_from_verifier |-> 0, cg_from_executor |-> 0,
   io_failed |-> FALSE, abort |-> "none", saved |-> NoRecord,
   prev_saved |-> NoRecord, resume |-> "none", resume_plan |-> NoPlan,
   sup_entries |-> 0, pl_retried |-> FALSE, selected |-> NoParams]

InitGraph ==
  /\ node = "idle"
  /\ state = IdleState
  /\ entries = 0
  /\ sess = IdleSess
  /\ turn = 0
  /\ disk = << >>
  /\ hist = IdleHist

InitPlan ==
  /\ InitGraph
  /\ tw = TwIdle
  /\ fs = FsIdle /\ gw = GwIdle /\ mem = MemIdle /\ ex = ExIdle
  /\ \/ \E p \in ParamPlans, mut \in BOOLEAN :
          \E xt \in ExtractedFor(p.action) :
            pl = [PlIdle EXCEPT !.pc = "lm", !.plan = p, !.lm_plan = p,
                                !.analysis = [is_mutating |-> mut, extracted |-> xt]]
     \/ \E p \in StepPlans, mut \in BOOLEAN, sc \in BOOLEAN :
            pl = [PlIdle EXCEPT !.pc = "lm", !.plan = p, !.lm_plan = p,
                                !.analysis = [is_mutating |-> mut, extracted |-> NoParams],
                                !.scoped = sc]

\* the Planner's normalisation of the LM plan, planner.py:168-171 (and
\* 232-233, 325-328); a raise ends in the strategy's except block
PlanNormalize ==
  /\ pl.pc = "lm"
  /\ LET enforced == EnforceAllCompartments(pl.plan)
     IN  IF SafetyFlagsRaises(enforced, pl.analysis)
         THEN pl' = [pl EXCEPT !.pc = "planner_error", !.plan = NoPlan,
                               !.plan_error = TRUE]
         ELSE pl' = [pl EXCEPT !.pc = "planned",
                               !.plan = ApplySafetyFlags(enforced, pl.analysis)]
  /\ UNCHANGED <<graphVars, tw, fs, gw, mem, ex>>

\* codegen_node on the Planner's plan
PlanCodegen ==
  /\ pl.pc = "planned"
  /\ \E lm \in CodegenLM :
       LET r == CodegenNode(pl.plan, lm)
       IN  pl' = [pl EXCEPT !.pc = IF r.plan_error THEN "codegen_error" ELSE "coded",
                            !.plan = r.plan, !.plan_error = r.plan_error]
  /\ UNCHANGED <<graphVars, tw, fs, gw, mem, ex>>

\* the Verifier passes the artifact and the Executor receives state.plan
PlanHandOver ==
  /\ pl.pc = "coded"
  /\ pl' = [pl EXCEPT !.pc = "executor"]
  /\ UNCHANGED <<graphVars, tw, fs, gw, mem, ex>>

SpecPlan == InitPlan /\ [][PlanNormalize \/ PlanCodegen \/ PlanHandOver]_vars

(***************************************************************************)
(* Claims on the plan pipeline (SpecPlan).                                 *)
(***************************************************************************)
\* plan.get('params', {})
ParamsOf(p) == IF p.params_kind = "dict" THEN p.params ELSE NoParams

\* C6: a plan emitted by the Planner whose action is in the known
\* required-parameter table has missing_parameters equal to exactly the set of
\* table-required parameters that are absent, None or blank in plan.params,
\* whatever missing_parameters list the LM put in the plan.
C6_MissingIsProgrammatic ==
  (pl.pc = "planned" /\ pl.plan.action \in KnownActions) =>
     /\ pl.plan.has_missing
     /\ Range(pl.plan.missing_parameters) =
          {q \in Range(KnownRequired(pl.plan.action)) :
             ParamsOf(pl.plan)[q] \in {"absent", "null", "blank"}}

\* a known action emitted with a blank required parameter reported missing
\* although the LM's own list said otherwise
C6_Witness ==
  /\ pl.pc = "planned"
  /\ pl.plan.action = "create_bucket"
  /\ ParamsOf(pl.plan)["name"] = "blank"
  /\ ParamsOf(pl.plan)["compartment_id"] = "value"
  /\ pl.lm_plan.missing_parameters = <<"extra">>
  /\ pl.plan.missing_parameters = <<"name">>

\* C7: in the final plan handed to the Executor every list operation, the
\* top-level action or any step, has params.all_compartments = true unless the
\* query scoped a specific compartment.
C7_ListOpsAllCompartments ==
  LET p == pl.plan
      \* list operations of the plan that do not search all compartments
      TopLevelUnscoped ==
        /\ p.action # NoAction
        /\ StartsWithList(p.action)
        /\ ~(p.params_kind = "dict" /\ p.ac = "true")
      StepsUnscoped ==
        {i \in 1..Len(p.steps) :
           p.has_steps /\ StartsWithList(p.steps[i].action) /\ p.steps[i].ac # "true"}
  IN  (pl.pc = "executor" /\ ~pl.scoped) =>
         /\ ~TopLevelUnscoped
         /\ StepsUnscoped = {}

(***************************************************************************)
(* The graph driver.  A stage is entered with the cumulative state and     *)
(* returns an overlay; the driver merges the overlay's keys that are       *)
(* channels of AgentState (the others are dropped), and follows the edge   *)
(* of the stage.  A stage's in-place writes to the top level of its input  *)
(* are lost; writes inside a shared object (the plan) are kept.            *)
(***************************************************************************)
LastN(seq, n) ==
  IF Len(seq) <= n THEN seq ELSE SubSeq(seq, Len(seq) - n + 1, Len(seq))

\* a conditional edge: the key the routing function returns must be a key of
\* the edge's mapping, core/graph.py:43-119
Mapped(key, mapping) == IF key \in mapping THEN key ELSE "unmapped"

\* core/graph.py:44-53
RouteAfterSupervisor(st) ==
  Mapped(IF st.next_step = "none" THEN "normalizer" ELSE st.next_step,
         {"normalizer", "presentation_node", "planner", "codegen"})

\* core/graph.py:55-63
RouteAfterNormalizer(st) ==
  Mapped(st.next_step, {"rag_retriever", "planner", "presentation_node"})

\* core/graph.py:65-72
RouteAfterRag(st) ==
  Mapped(IF st.next_step = "none" THEN "presentation_node" ELSE st.next_step,
         {"presentation_node", "planner"})

\* the planner's edge without its "planner" target
RouteAfterPlannerNoRetry(st) ==
  Mapped(IF st.next_step = "none" THEN "supervisor" ELSE st.next_step,
         {"supervisor", "codegen", "presentation_node"})

\* core/graph.py:75-85
RouteAfterPlanner(st) ==
  Mapped(IF st.next_step = "none" THEN "supervisor" ELSE st.next_step,
         {"supervisor", "codegen", "planner", "presentation_node"})

\* core/graph.py:89-98
RouteAfterVerifier(st) ==
  Mapped(st.next_step, {"executor", "presentation_node"})

\* the executor's edge followed the way the supervisor's is
RouteAfterExecutorByNextStep(st) ==
  IF st.execution_error # "none" THEN "supervisor" ELSE "presentation_node"

\* core/graph.py:100-108
RouteAfterExecutor(st) == "presentation_node"

\* core/graph.py:110-119
RouteAfterPresentation(st) ==
  IF st.memory_saved = "unset" THEN "memory_manager" ELSE "END"

\* the edge of memory_manager following the next_step its overlay sets
RouteAfterMemoryManagerByNextStep(st) == st.next_step

\* core/graph.py:122
RouteAfterMemoryManager(st) == "END"

\* one stage entered and left: the overlay merged, the chunk handed to the
\* app (app.py:814-824), the edge followed
Advance(stage, st2, next, sess2, disk2, h2) ==
  /\ node = stage
  /\ entries < RecursionLimit
  /\ state' = st2
  /\ entries' = entries + 1
  /\ node' = IF next \in Stages \cup {"END"} THEN next ELSE "aborted"
  /\ sess' = sess2
  /\ disk' = disk2
  /\ hist' = [h2 EXCEPT !.after_pres = IF hist.presented THEN Append(@, stage) ELSE @,
                        !.abort = IF next \in Stages \cup {"END"} THEN @ ELSE "route"]
  /\ UNCHANGED <<turn, pl, tw, fs, gw, mem, ex>>

\* a stage that raises: the stream raises and app.py:849-851 catches it
Raise(stage, cause) ==
  /\ node = stage
  /\ entries < RecursionLimit
  /\ node' = "aborted"
  /\ entries' = entries + 1
  /\ hist' = [hist EXCEPT !.abort = cause, !.io_failed = @ \/ cause = "io",
                          !.after_pres = IF hist.presented THEN Append(@, stage) ELSE @]
  /\ UNCHANGED <<state, sess, disk, turn, pl, tw, fs, gw, mem, ex>>

\* the driver's step limit: GraphRecursionError, caught by app.py:849-851
DriverAbort ==
  /\ node \in Stages
  /\ entries >= RecursionLimit
  /\ node' = "aborted"
  /\ hist' = [hist EXCEPT !.abort = "recursion"]
  /\ UNCHANGED <<state, entries, sess, disk, turn, pl, tw, fs, gw, mem, ex>>

\* app.py:746-808: the user's message starts a turn; u is what the user
\* typed, as far as the program tells inputs apart
AppTurn ==
  /\ \E u \in {"blank", "text", "yes"}, toggle \in BOOLEAN :
       LET sess1 ==
             IF sess.confirmation_required
             THEN [sess EXCEPT !.confirmation_response = u,
                               !.confirmation_required = FALSE]
             ELSE IF sess.parameter_gathering_required
             THEN [sess EXCEPT !.parameter_selection_response = u,
                               !.parameter_gathering_required = FALSE]
             ELSE sess
           sess2 == [sess1 EXCEPT !.use_rag_chain = toggle]
       IN  /\ sess' = sess2
           /\ state' = [IdleState EXCEPT
                 !.user_input = u,
                 !.use_rag_chain = sess2.use_rag_chain,
                 !.confirmation_required = sess2.confirmation_required,
                 !.confirmation_response = sess2.confirmation_response,
                 !.pending_plan = sess2.pending_plan,
                 !.parameter_gathering_required = sess2.parameter_gathering_required,
                 !.parameter_selection_response = sess2.parameter_selection_response]
           /\ hist' = [IdleHist EXCEPT
                 !.prev_saved = hist.saved,
                 !.resume = IF sess.confirmation_required /\ sess.pending_plan.present
                            THEN (CASE u = "yes" -> "confirm"
                                    [] u = "text" -> "cancel"
                                    [] OTHER -> "none")
                            ELSE "none",
                 !.resume_plan = sess.pending_plan]
  /\ node' = "memory_context"
  /\ entries' = 0
  /\ turn' = turn + 1
  /\ UNCHANGED <<disk, pl, tw, fs, gw, mem, ex>>

\* the first message of a session
FirstTurn ==
  /\ node = "idle"
  /\ AppTurn

\* a later message, after the previous turn has ended or was aborted
LaterTurn ==
  /\ node \in {"END", "aborted"}
  /\ turn < MaxTurns
  /\ AppTurn

\* core/memory/memory_manager.py:15-19 and short_term.py:13-17: a new
\* MemoryManager has an empty short-term memory
NewMemoryManager == [present |-> TRUE, conversation_history |-> << >>]

\* nodes/memory_context.py:10-58; io: the memory directory cannot be created
\* The conversation context comes from the cache of the new instance, then
\* from its short-term memory (core/memory/memory_manager.py:41-54,
\* short_term.py:28-34); the store is not read
MemoryContext ==
  /\ node = "memory_context"
  /\ \E io \in BOOLEAN :
    LET mm == NewMemoryManager
        st2 == IF io
               THEN [state EXCEPT !.next_step = "supervisor", !.recent_turns = << >>]
               ELSE [state EXCEPT !.next_step = "supervisor",
                                  !.recent_turns =
                                     LastN(mm.conversation_history, RecentTurns),
                                  !.memory_manager = mm]
    IN  Advance("memory_context", st2, "supervisor",
                [sess EXCEPT !.confirmation_required = st2.confirmation_required,
                             !.pending_plan = st2.pending_plan],
                disk, [hist EXCEPT !.io_failed = @ \/ io])

\* nodes/normalizer.py:9-96
Normalizer ==
  /\ node = "normalizer"
  /\ \E lm \in {"chat", "executable", "raise"} :
    LET route == IF state.use_rag_chain THEN "rag_retriever" ELSE "planner"
        st2 == IF state.user_input = "blank"
               THEN [state EXCEPT !.next_step = "presentation_node",
                                  !.last_node = "normalizer"]
               ELSE IF lm = "chat"
               THEN [state EXCEPT !.next_step = "presentation_node",
                                  !.last_node = "normalizer",
                                  !.normalized_query = "set",
                                  !.intent = "general_chat"]
               ELSE [state EXCEPT !.next_step = route, !.last_node = "normalizer",
                                  !.normalized_query = "set"]
    IN  Advance("normalizer", st2, RouteAfterNormalizer(st2), sess, disk, hist)

\* has_data without its any(doc.strip() ...) conjunct
HasDataFound(docs) == Len(docs) > 0

\* nodes/rag_retriever.py:25-28
HasData(docs) == Len(docs) > 0 /\ \E i \in 1..Len(docs) : docs[i] = "text"

\* nodes/rag_retriever.py:7-53: a hit carries the documents, which are
\* strings; a miss keeps normalized_query, or takes user_input for it
RagRetrieverNode(st, docs) ==
  IF HasData(docs)
  THEN [st EXCEPT !.last_node = "rag_retriever",
                  !.rag_result = docs,
                  !.next_step = "presentation_node",
                  !.execution_strategy = "rag_chain",
                  !.execution_result = [kind |-> "rag", items |-> docs]]
  ELSE [st EXCEPT !.last_node = "rag_retriever",
                  !.rag_result = docs,
                  !.next_step = "planner",
                  !.execution_strategy = "rag_fallback_to_planner",
                  !.rag_fallback = TRUE,
                  !.normalized_query = IF @ = "unset" THEN "user_input" ELSE @]

\* the rag_retriever stage; docs is what the vector search returns:
\* documents, blank or not (rag/retriever.py:80-115, rag/vectorstore.py:208-254)
RagRetriever ==
  /\ node = "rag_retriever"
  /\ \E docs \in (UNION {[1..n -> {"blank", "text"}] : n \in 0..MaxItems}) :
    LET st2 == RagRetrieverNode(state, docs)
    IN  Advance("rag_retriever", st2, RouteAfterRag(st2), sess, disk, hist)

(***************************************************************************)
(* Planner.                                                                *)
(***************************************************************************)
\* plans the planning LM may answer with
GraphPlans ==
  {[NoPlan EXCEPT !.present = TRUE, !.action = "list_instances",
                  !.params_kind = "dict"],
   [NoPlan EXCEPT !.present = TRUE, !.action = "delete_bucket",
                  !.params_kind = "dict",
                  !.params = [NoParams EXCEPT !["name"] = "value"]],
   [NoPlan EXCEPT !.present = TRUE, !.action = "delete_bucket",
                  !.params_kind = "null"],
   [NoPlan EXCEPT !.present = TRUE, !.action = "delete_bucket",
                  !.params_kind = "dict"],
   [NoPlan EXCEPT !.present = TRUE, !.action = "create_bucket",
                  !.params_kind = "dict", !.has_missing = TRUE,
                  !.missing_parameters = <<"extra">>],
   [NoPlan EXCEPT !.present = TRUE, !.action = "update_bucket",
                  !.params_kind = "dict", !.has_missing = TRUE,
                  !.missing_parameters = <<"name">>, !.has_steps = TRUE,
                  !.steps = <<[action |-> "list_instances", service |-> "compute",
                               ac |-> "absent", oci_code |-> FALSE]>>],
   [NoPlan EXCEPT !.present = TRUE, !.has_steps = TRUE,
                  !.steps = [i \in 1..2 |->
                               [action |-> "create_bucket",
                                service |-> "objectstorage",
                                ac |-> "absent", oci_code |-> FALSE]]]}

\* _enforce_all_compartments then _apply_safety_flags, as every strategy
\* calls them
Normalise(p, an) == ApplySafetyFlags(EnforceAllCompartments(p), an)

NormaliseRaises(p, an) == SafetyFlagsRaises(EnforceAllCompartments(p), an)

\* the overlay of an except block, nodes/planner.py:250-258 and 350-358
PlannerErrorOverlay(st) ==
  [st EXCEPT !.plan = NoPlan, !.plan_error = TRUE, !.last_node = "planner",
             !.next_step = "presentation_node"]

\* nodes/planner.py:261-358
HandleLlmFallback(st, an, out) ==
  IF out.kind = "plan" /\ ~NormaliseRaises(out.plan, an)
  THEN [st EXCEPT !.plan = Normalise(out.plan, an), !.last_node = "planner"]
  ELSE PlannerErrorOverlay(st)

\* nodes/planner.py:84-113; TemplatePlan: nodes/planner.py:393-411 on a
\* template of a list action
HandleDirectFetch(st, an, out) ==
  LET TemplatePlan ==
        [NoPlan EXCEPT !.present = TRUE, !.action = "list_instances",
                       !.params_kind = "dict",
                       !.params = [NoParams EXCEPT !["compartment_id"] = "value"],
                       !.ac = "true", !.safety_tier = "safe"]
  IN  IF an.template
      THEN [st EXCEPT !.plan = Normalise(TemplatePlan, an), !.last_node = "planner",
                      !.next_step = "codegen"]
      ELSE HandleLlmFallback(st, an, out)

\* nodes/planner.py:116-258
HandleMultiStep(st, an, out) ==
  IF out.kind = "plan" /\ out.plan.present /\ ~NormaliseRaises(out.plan, an)
  THEN LET p == Normalise(out.plan, an)
           missing == p.has_missing /\ p.missing_parameters # << >>
       IN  [st EXCEPT !.plan = p, !.last_node = "planner",
                      !.next_step =
                         IF missing /\ (StartsWithCreate(p.action) \/ p.has_steps)
                         THEN "supervisor" ELSE "codegen"]
  ELSE IF out.kind = "rate_limited" /\ ~NormaliseRaises(out.plan, an)
  THEN [st EXCEPT !.plan = Normalise(out.plan, an), !.last_node = "planner"]
  ELSE PlannerErrorOverlay(st)

\* nodes/planner.py:12-81
PlannerNode(st, an, out) ==
  CASE an.execution_type = "DIRECT_FETCH" -> HandleDirectFetch(st, an, out)
    [] an.execution_type = "MULTI_STEP_REQUIRED" -> HandleMultiStep(st, an, out)
    [] OTHER -> HandleLlmFallback(st, an, out)

\* what the planner is entered with.  PlannerAnalyses: the analysis of the
\* query (core/enhanced_intent_analyzer.py:62-241, nodes/planner.py:41-63);
\* `template` tells whether get_template_plan
\* (core/query_templates.py:84-116) has a template for it.  PlannerOutcomes:
\* what the planning LM call does: a plan (NoPlan when the answer is the JSON
\* null), an exception, or a rate-limit exception after which the fallback
\* model answers with the plan.  Kept are the pairs that differ in what the
\* planner does: a template needs no LM call, and only the multi-step
\* strategy tells a rate-limit exception from another one
PlannerInputs ==
  LET PlannerAnalyses ==
        {a \in [execution_type : {"DIRECT_FETCH", "MULTI_STEP_REQUIRED", "UNKNOWN"},
                template : BOOLEAN, is_mutating : BOOLEAN,
                extracted : {NoParams, [NoParams EXCEPT !["name"] = "value"]}] :
           a.template => a.execution_type = "DIRECT_FETCH"}
      PlannerOutcomes ==
        {[kind |-> "error", plan |-> NoPlan]} \cup
        {[kind |-> k, plan |-> p] :
           k \in {"plan", "rate_limited"}, p \in GraphPlans \cup {NoPlan}}
  IN
  {i \in PlannerAnalyses \X PlannerOutcomes :
     /\ i[1].template => i[2].kind = "error"
     /\ i[2].kind = "rate_limited" => i[1].execution_type = "MULTI_STEP_REQUIRED"
     /\ i[1].extracted # NoParams =>
          i[1].execution_type = "MULTI_STEP_REQUIRED" /\ i[1].is_mutating}

\* the planner's last run left no plan: plan_error, or a null plan
PlannerFailed(st) == st.last_node = "planner" /\ (st.plan_error \/ ~st.plan.present)

\* the planner entered with one of `inputs`; io: FastErrorHandler() cannot
\* create memory/ or the learning file (core/fast_error_handler.py:16-25)
\* and raises out of the except block.  A strategy calls handle_node_error
\* when it enters an except block, nodes/planner.py:218 and 348
PlannerWith(inputs) ==
  \/ \E st2 \in {PlannerNode(state, i[1], i[2]) : i \in inputs} :
       Advance("planner", st2, RouteAfterPlanner(st2), sess, disk,
               [hist EXCEPT
                  !.planned_rc = st2.plan.present /\ st2.plan.requires_confirmation,
                  !.pl_retried = @ \/ PlannerFailed(state)])
  \/ /\ \E i \in inputs :
          /\ ~(i[1].execution_type = "DIRECT_FETCH" /\ i[1].template)
          /\ ~(/\ i[2].kind = "plan"
                /\ ~NormaliseRaises(i[2].plan, i[1])
                /\ ~(i[1].execution_type = "MULTI_STEP_REQUIRED" /\ ~i[2].plan.present))
     /\ Raise("planner", "io")

\* the planner stage
Planner ==
  /\ node = "planner"
  /\ PlannerWith(PlannerInputs)

\* the planner stage in a session whose planner overlays all carry a
\* next_step
PlannerSession ==
  /\ node = "planner"
  /\ PlannerWith({i \in PlannerInputs :
                    \/ i[1].execution_type = "DIRECT_FETCH" /\ i[1].template
                    \/ i[1].execution_type = "MULTI_STEP_REQUIRED" /\ i[2].kind = "plan"
                    \/ PlannerErrorOverlay(IdleState)
                         = PlannerNode(IdleState, i[1], i[2])})

(***************************************************************************)
(* Supervisor.                                                             *)
(***************************************************************************)
\* the parameter-analysis LM call, nodes/supervisor.py:222-225: an answer
\* that is not JSON, or the JSON's parameters_complete, missing_parameters
\* and extracted_parameters
SupervisorLM ==
  {[kind |-> "raise", missing |-> << >>, extracted |-> NoParams],
   [kind |-> "complete", missing |-> << >>, extracted |-> NoParams]} \cup
  {[kind |-> "incomplete", missing |-> m, extracted |-> e] :
     m \in {<< >>, <<"compartment_id">>},
     e \in {NoParams, [NoParams EXCEPT !["compartment_id"] = "value"]}}

\* nodes/supervisor.py:9-56 on the kinds of execution_error
IsRetryableError(e) == e = "retryable"

\* which branch of supervisor_node runs, nodes/supervisor.py:124-419
SupervisorBranch(st) ==
  CASE st.recursion_count >= MaxRecursion -> "limit"
    [] st.last_node = "none" -> "entry"
    [] st.last_node = "normalizer" /\ st.pending_plan.present -> "clear_pending"
    [] st.last_node = "normalizer" -> "to_planner"
    [] st.last_node = "planner" -> "planner"
    [] st.last_node = "presentation_node" /\ st.confirmation_response # "none" ->
         "confirmation"
    [] st.last_node = "presentation_node" /\ st.parameter_selection_response # "none" ->
         "parameter_selection"
    [] st.last_node = "verifier" -> "verifier"
    [] st.last_node = "executor" -> "executor"
    [] OTHER -> "fallback"

\* nodes/supervisor.py:267-278
ConfirmationCheck(st) ==
  IF st.plan.requires_confirmation
  THEN [st EXCEPT !.next_step = "presentation_node",
                  !.confirmation_required = TRUE, !.pending_plan = st.plan]
  ELSE [st EXCEPT !.next_step = "codegen"]

\* nodes/supervisor.py:242-249 and 257-265
GatherParameters(st, missing) ==
  [st EXCEPT !.next_step = "presentation_node",
             !.parameter_gathering_required = TRUE,
             !.missing_parameters = missing, !.pending_plan = st.plan]

\* nodes/supervisor.py:180-278, called from the planner
SupervisorAfterPlanner(st, lm) ==
  IF st.plan_error \/ ~st.plan.present
  THEN [st EXCEPT !.next_step = "planner"]
  ELSE IF lm.kind = "raise"
          \/ (lm.kind = "incomplete" /\ lm.extracted # NoParams
                /\ st.plan.params_kind = "null")
  THEN IF st.plan.has_missing /\ st.plan.missing_parameters # << >>
       THEN GatherParameters(st, st.plan.missing_parameters)
       ELSE ConfirmationCheck(st)
  ELSE IF lm.kind = "incomplete"
  THEN LET st1 == IF lm.extracted # NoParams /\ st.plan.params_kind = "dict"
                  THEN [st EXCEPT !.plan.params = UpdateParams(@, lm.extracted)]
                  ELSE st
       IN  IF lm.missing # << >>
           THEN GatherParameters(st1, lm.missing)
           ELSE ConfirmationCheck(st1)
  ELSE ConfirmationCheck(st)

\* nodes/supervisor.py:280-298
SupervisorConfirmation(st) ==
  IF st.confirmation_response = "yes"
  THEN [st EXCEPT !.next_step = "codegen", !.plan = st.pending_plan]
  ELSE [st EXCEPT !.next_step = "presentation_node", !.action_cancelled = TRUE]

\* nodes/supervisor.py:300-337; `selected` is the dict that
\* _parse_parameter_response made of the user's answer.  The function returns
\* the pair (success, dict) (presentation_node.py:402-505) and the supervisor
\* hands the pair to dict.update, which raises, so the stage returns an
\* overlay only when the merge is skipped: pending_plan has no params key
SupervisorParameterSelection(st, selected) ==
  LET pp == st.pending_plan
  IN  IF pp.requires_confirmation
      THEN [st EXCEPT !.next_step = "presentation_node",
                      !.confirmation_required = TRUE, !.pending_plan = pp]
      ELSE [st EXCEPT !.next_step = "codegen", !.plan = pp, !.pending_plan = pp]

\* nodes/supervisor.py:349-385
SupervisorAfterVerifier(st) ==
  IF ~st.plan.present \/ ~st.plan_valid
  THEN [st EXCEPT !.next_step = "planner"]
  ELSE IF st.verify_retries < 1
  THEN [st EXCEPT !.next_step = "codegen", !.verify_retries = @ + 1]
  ELSE [st EXCEPT !.next_step = "presentation_node",
                  !.execution_error = "nonretryable"]

\* nodes/supervisor.py:387-415; execution_retries is not a channel of
\* AgentState, so state.get("execution_retries", 0) is 0
SupervisorAfterExecutor(st) ==
  IF 0 < 1 /\ IsRetryableError(st.execution_error)
  THEN [st EXCEPT !.next_step = "codegen"]
  ELSE [st EXCEPT !.next_step = "presentation_node"]

\* nodes/supervisor.py:117-419
SupervisorNode(st, lm) ==
  LET b == SupervisorBranch(st)
  IN  CASE b = "limit" ->
             [st EXCEPT !.next_step = "presentation_node", !.presentation = "limit"]
        [] b = "entry" -> [st EXCEPT !.next_step = "normalizer"]
        [] b = "clear_pending" ->
             [st EXCEPT !.next_step = "normalizer", !.pending_plan = NoPlan,
                        !.parameter_gathering_required = FALSE,
                        !.confirmation_required = FALSE,
                        !.missing_parameters = << >>]
        [] b = "to_planner" -> [st EXCEPT !.next_step = "planner"]
        [] b = "planner" -> SupervisorAfterPlanner(st, lm)
        [] b = "confirmation" -> SupervisorConfirmation(st)
        [] b = "parameter_selection" -> SupervisorParameterSelection(st, lm.extracted)
        [] b = "verifier" -> SupervisorAfterVerifier(st)
        [] b = "executor" -> SupervisorAfterExecutor(st)
        [] OTHER -> [st EXCEPT !.next_step = "normalizer"]

\* pending_plan.get on None, nodes/supervisor.py:322; update() of a dict
\* params with the pair, or on a null params, nodes/supervisor.py:317
SupervisorRaises(st) ==
  /\ SupervisorBranch(st) = "parameter_selection"
  /\ ~st.pending_plan.present \/ st.pending_plan.params_kind \in {"dict", "null"}

\* the supervisor stage; the app copies confirmation_required, pending_plan
\* and action_cancelled of the overlay into the session (app.py:819-824)
Supervisor ==
  /\ node = "supervisor"
  /\ \E lm \in SupervisorLM :
    IF SupervisorRaises(state)
    THEN Raise("supervisor", "error")
    ELSE
    LET b == SupervisorBranch(state)
        st2 == SupervisorNode(state, lm)
        toCodegen == st2.next_step = "codegen"
    IN  Advance("supervisor", st2, RouteAfterSupervisor(st2),
                [sess EXCEPT !.confirmation_required = st2.confirmation_required,
                             !.pending_plan = st2.pending_plan,
                             !.action_cancelled = @ \/ st2.action_cancelled],
                disk,
                [hist EXCEPT
                   !.sup_entries = @ + 1,
                   !.selected = IF b = "parameter_selection" THEN lm.extracted ELSE @,
                   !.approved = @ \/ (b = "confirmation" /\ toCodegen),
                   !.cg_from_verifier = IF b = "verifier" /\ toCodegen THEN @ + 1 ELSE @,
                   !.cg_from_executor = IF b = "executor" /\ toCodegen THEN @ + 1 ELSE @])

(***************************************************************************)
(* CodeGen, Verifier, Executor.                                            *)
(***************************************************************************)
\* the codegen stage, nodes/codegen_node.py:122-407; its edge goes to the
\* verifier (core/graph.py:87); an except block (nodes/codegen_node.py:402,
\* 552 and 668) calls handle_node_error, and one whose FastErrorHandler()
\* raises lets the exception out of the stage
Codegen ==
  /\ node = "codegen"
  /\ \E lm \in CodegenLM :
       LET r == CodegenNode(state.plan, lm)
           st2 == [state EXCEPT !.plan = r.plan,
                                !.plan_error = IF r.keep_error THEN @ ELSE r.plan_error,
                                !.last_node = "codegen"]
       IN  \/ Advance("codegen", st2, "verifier", sess, disk, hist)
           \/ /\ \/ CodegenBranch(state.plan) = "single" /\ lm = "raise"
                 \/ /\ CodegenBranch(state.plan) = "multi"
                    /\ \/ lm = "raise"
                       \/ /\ lm = "batch_raise"
                          /\ AreStepsSimilar(state.plan.steps)
                          /\ state.plan.steps[1].action = "create_bucket"
              /\ Raise("codegen", "io")

\* the verifier stage: next_step = executor on pass, next_step = supervisor
\* on failure; the static checks pass only on a plan that has an artifact
Verifier ==
  /\ node = "verifier"
  /\ \E pass \in BOOLEAN, valid \in BOOLEAN :
    /\ pass => /\ valid
               /\ state.plan.present
               /\ \/ state.plan.oci_code
                  \/ /\ state.plan.has_steps
                     /\ Len(state.plan.steps) > 0
                     /\ \A i \in 1..Len(state.plan.steps) : state.plan.steps[i].oci_code
    /\ LET st2 == [state EXCEPT !.next_step = IF pass THEN "executor" ELSE "supervisor",
                                !.plan_valid = valid,
                                !.last_node = "verifier"]
       IN  Advance("verifier", st2, RouteAfterVerifier(st2), sess, disk, hist)

\* what the generated code leaves in `result`: attribute maps, SDK model
\* objects, primitives
RawItems == UNION {[1..n -> {"dict", "sdk", "prim"}] : n \in 0..MaxItems}

\* nodes/executor.py:142-183: every item, whatever it was, comes out a dict
SanitizeResults(items) == [i \in 1..Len(items) |-> "dict"]

\* nodes/executor.py:5-139 and 192-330; the fixed messages of lines 16 and
\* 26 match no pattern of _is_retryable_error and are retryable by default
ExecutorNode(st, ok, raw, err) ==
  IF ~st.plan.present
  THEN [st EXCEPT !.execution_error = "retryable", !.last_node = "executor"]
  ELSE IF st.plan.has_steps
  THEN IF ok
       THEN [st EXCEPT !.execution_result =
                          [kind |-> "list", items |-> SanitizeResults(raw)],
                       !.last_node = "executor"]
       ELSE [st EXCEPT !.execution_result =
                          [kind |-> "list", items |-> SanitizeResults(raw)],
                       !.execution_error = err,
                       !.last_node = "executor"]
  ELSE IF ~st.plan.oci_code
  THEN [st EXCEPT !.execution_error = "retryable", !.last_node = "executor"]
  ELSE IF ok
  THEN [st EXCEPT !.execution_result =
                     [kind |-> "list", items |-> SanitizeResults(raw)],
                  !.last_node = "executor"]
  ELSE [st EXCEPT !.execution_error = err, !.last_node = "executor"]


\* the executor stage.  Running the generated code gives a result, or an
\* exception; a multi-step plan may have results of some steps and errors
\* of others
Executor ==
  /\ node = "executor"
  /\ \E o \in {[ok |-> TRUE, raw |-> r, err |-> "none"] : r \in RawItems} \cup
            {[ok |-> FALSE, raw |-> r, err |-> e] :
               r \in {x \in RawItems : \A j \in 1..Len(x) : x[j] = "sdk"},
               e \in {"retryable", "nonretryable"}} :
       LET st2 == ExecutorNode(state, o.ok, o.raw, o.err)
       IN  Advance("executor", st2, RouteAfterExecutor(st2), sess, disk, hist)

(***************************************************************************)
(* Presentation and the memory stages.                                     *)
(***************************************************************************)
\* the items of an execution_result: of the list, or of its "data"
ItemsOf(er) == Range(er.items)

\* nodes/presentation_node.py:12-142, the kind of presentation produced
PresentationKind(st) ==
  CASE st.confirmation_required -> "confirmation"
    [] st.action_cancelled -> "cancelled"
    [] st.parameter_gathering_required -> "parameter_gathering"
    [] st.plan_error -> "plan_error"
    [] st.intent = "general_chat" \/ st.execution_error # "none" -> "chat"
    [] OTHER -> IF \E k \in ItemsOf(st.execution_result) : k # "dict"
                THEN "live_error"
                ELSE IF st.execution_result.items # << >> THEN "table" ELSE "chat"

\* the presentation stage
Presentation ==
  /\ node = "presentation_node"
  /\ LET k == PresentationKind(state)
         st2 == [state EXCEPT !.presentation = k,
                              !.next_step = IF k = "parameter_gathering"
                                            THEN "user_input_required" ELSE @]
     IN  Advance("presentation_node", st2, RouteAfterPresentation(st2), sess, disk,
                 [hist EXCEPT !.presented = TRUE])

\* core/memory/short_term.py:24-26
ShortTermCap == 20

\* the memory_manager stage, nodes/memory_manager.py:10-67; io: the files of
\* the memory directory cannot be written or listed
MemoryManager ==
  /\ node = "memory_manager"
  /\ \E io \in BOOLEAN :
    IF ~state.memory_manager.present
    THEN Advance("memory_manager", [state EXCEPT !.next_step = "supervisor"],
                 RouteAfterMemoryManager([state EXCEPT !.next_step = "supervisor"]),
                 sess, disk, hist)
    ELSE
    LET rec == [present |-> TRUE, timestamp |-> turn, query |-> "",
                intent |-> state.intent]
        st2 == [state EXCEPT
                  !.next_step = "supervisor",
                  !.memory_saved = IF io THEN "false" ELSE "true",
                  !.memory_manager.conversation_history =
                     LastN(Append(@, rec), ShortTermCap)]
    IN  Advance("memory_manager", st2, RouteAfterMemoryManager(st2), sess,
                IF io THEN disk ELSE LastN(Append(disk, rec), HistoryCap),
                [hist EXCEPT !.io_failed = @ \/ io,
                             !.saved = IF io THEN @ ELSE rec])

Next ==
  \/ FirstTurn
  \/ MemoryContext
  \/ Supervisor
  \/ Normalizer
  \/ RagRetriever
  \/ Planner
  \/ Codegen
  \/ Verifier
  \/ Executor
  \/ Presentation
  \/ MemoryManager
  \/ DriverAbort

Init == InitGraph /\ pl = PlIdle /\ tw = TwIdle /\ fs = FsIdle /\ gw = GwIdle /\ mem = MemIdle /\ ex = ExIdle

Spec == Init /\ [][Next]_vars

\* sessions of several turns
SpecSession ==
  Init /\ [][FirstTurn \/ LaterTurn \/ MemoryContext \/ Supervisor
             \/ Normalizer \/ RagRetriever \/ PlannerSession
             \/ Codegen \/ Verifier \/ Executor \/ Presentation
             \/ MemoryManager]_vars

(***************************************************************************)
(* SpecSupervisor: the supervisor entered on the states its branches are   *)
(* written for (nodes/supervisor.py:124-415), the graph running on from    *)
(* there.                                                                  *)
(***************************************************************************)
\* plans a paused turn may have left in pending_plan, or a stage in plan:
\* the planner's, on the analysis of a query that names no parameter and no
\* mutating verb
HeldPlans ==
  LET PlainAnalysis ==
        [execution_type |-> "MULTI_STEP_REQUIRED", template |-> FALSE,
         is_mutating |-> FALSE, extracted |-> NoParams]
  IN  {Normalise(q, PlainAnalysis) :
         q \in {g \in GraphPlans : ~NormaliseRaises(g, PlainAnalysis)}}

\* the plans of HeldPlans as codegen_node returns them, with their code
CodedPlans ==
  {CodegenNode(p, "ok").plan : p \in HeldPlans} \ {NoPlan}

\* the turn state as memory_context leaves it
EnteredState ==
  [IdleState EXCEPT !.user_input = "text", !.next_step = "supervisor",
                    !.memory_manager = NewMemoryManager]

SupervisorInputs ==
  \* the start of a turn
  {[EnteredState EXCEPT !.use_rag_chain = t] : t \in BOOLEAN}
  \cup
  \* called from the planner
  {[EnteredState EXCEPT !.last_node = "planner", !.plan_error = TRUE]}
  \cup
  {[EnteredState EXCEPT !.last_node = "planner", !.plan = p,
                        !.recursion_count = rc] :
     p \in HeldPlans, rc \in {0, MaxRecursion}}
  \cup
  \* called from presentation with the user's reply
  {[EnteredState EXCEPT !.last_node = "presentation_node",
                        !.confirmation_response = r, !.pending_plan = p] :
     r \in {"yes", "text"}, p \in HeldPlans}
  \cup
  {[EnteredState EXCEPT !.last_node = "presentation_node",
                        !.parameter_selection_response = "text",
                        !.pending_plan = p] :
     p \in HeldPlans}
  \cup
  \* called from the verifier and from the executor
  {[EnteredState EXCEPT !.last_node = "verifier", !.plan = p, !.plan_valid = v,
                        !.verify_retries = n] :
     p \in HeldPlans \cup CodedPlans, v \in BOOLEAN, n \in {0, 1}}
  \cup
  {[EnteredState EXCEPT !.last_node = "executor", !.plan = p,
                        !.execution_error = e, !.recursion_count = rc] :
     p \in HeldPlans \cup CodedPlans, e \in {"retryable", "nonretryable"}, rc \in {0, MaxRecursion}}

InitSupervisor ==
  /\ node = "supervisor"
  /\ state \in SupervisorInputs
  /\ entries = 1
  /\ sess = IdleSess
  /\ turn = 1
  /\ disk = << >>
  /\ hist = IdleHist
  /\ pl = PlIdle
  /\ tw = TwIdle
  /\ fs = FsIdle /\ gw = GwIdle /\ mem = MemIdle /\ ex = ExIdle

SpecSupervisor ==
  InitSupervisor /\ [][Supervisor \/ Normalizer \/ RagRetriever
                       \/ PlannerSession \/ Codegen \/ Verifier \/ Executor
                       \/ Presentation \/ MemoryManager]_vars

(***************************************************************************)
(* SpecTemplate: the Planner run twice on one query, from equal states.    *)
(* A query is what _quick_analysis reads in it: the verb its action regex  *)
(* finds, the resource word, whether a multi-step indicator occurs, and    *)
(* the filter wording.  A run is the analysis of the query and then the    *)
(* strategy; the plan is followed on the template strategy, the other      *)
(* strategies (one planning LM call each) are those of Spec.               *)
(***************************************************************************)
\* core/enhanced_intent_analyzer.py:18-39, resource_map
ResourceOf(word) ==
  CASE word = "instances" -> "instance"
    [] word = "users" -> "user"
    [] word = "policies" -> "policy"
    [] OTHER -> "unknown"

ServiceOf(resource) ==
  CASE resource = "instance" -> "compute"
    [] resource \in {"user", "policy"} -> "identity"
    [] OTHER -> "unknown"

\* core/enhanced_intent_analyzer.py:42-51 and 243-255: the pattern list_<r>
\* matches when a listing verb and the word <r> occur in the query
MatchesPattern(q) == q.verb = "list" /\ q.word \in {"instances", "users"}

\* core/enhanced_intent_analyzer.py:80-195
QuickAnalysis(q) ==
  LET resource == ResourceOf(q.word)
      etype == IF q.indicator THEN "MULTI_STEP_REQUIRED"
               ELSE IF MatchesPattern(q) THEN "DIRECT_FETCH" ELSE "UNKNOWN"
  IN  [primary_resource |-> resource,
       action |-> IF q.verb = "none" THEN "list" ELSE q.verb,
       requires_filtering |-> q.cond # "none",
       filter_conditions |-> IF q.cond = "none" THEN << >> ELSE <<q.cond>>,
       oci_service |-> ServiceOf(resource),
       is_mutating |-> FALSE,
       execution_type |-> etype,
       confidence |-> IF etype # "UNKNOWN" /\ q.verb # "none" /\ resource # "unknown"
                      THEN "high" ELSE "low"]

\* what the analysis LM answers: no JSON (an exception), or a JSON object
AnalyzerLM ==
  {[kind |-> "raise", intent |-> NoIntent]} \cup
  {[kind |-> "json",
    intent |-> [NoIntent EXCEPT !.primary_resource = r, !.oci_service = s,
                                !.is_mutating = m, !.execution_type = t]] :
     r \in {"policy", "unknown"}, s \in {"identity", "compute"},
     m \in BOOLEAN, t \in {"DIRECT_FETCH", "MULTI_STEP_REQUIRED"}}

\* core/enhanced_intent_analyzer.py:197-241
LlmAnalysis(lm) ==
  IF lm.kind = "raise"
  THEN [NoIntent EXCEPT !.oci_service = "compute",
                        !.execution_type = "MULTI_STEP_REQUIRED"]
  ELSE [lm.intent EXCEPT !.confidence = "high"]

\* core/enhanced_intent_analyzer.py:62-78
Analyze(q, lm) ==
  IF QuickAnalysis(q).confidence = "high" THEN QuickAnalysis(q) ELSE LlmAnalysis(lm)

NoTemplate ==
  [found |-> FALSE, api_method |-> NoAction, requires_filtering |-> FALSE,
   filters |-> << >>]

\* core/query_templates.py:11-53, api_methods
ApiMethod(resource) ==
  CASE resource = "instance" -> "list_instances"
    [] resource = "user" -> "list_users"
    [] resource = "policy" -> "list_policies"
    [] resource = "compartment" -> "list_compartments"
    [] OTHER -> NoAction

\* core/query_templates.py:84-116, with _check_direct_fetch_patterns
\* (118-193) and the two plan builders (195-226)
GetTemplatePlan(intent) ==
  IF intent.action # "list" THEN NoTemplate
  ELSE IF intent.primary_resource = "instance"
          /\ \E i \in DOMAIN intent.filter_conditions :
                intent.filter_conditions[i] = "running"
  THEN [found |-> TRUE, api_method |-> "list_instances",
        requires_filtering |-> FALSE, filters |-> <<"RUNNING">>]
  ELSE IF ApiMethod(intent.primary_resource) = NoAction THEN NoTemplate
  ELSE IF intent.requires_filtering
  THEN [found |-> TRUE, api_method |-> ApiMethod(intent.primary_resource),
        requires_filtering |-> TRUE,
        filters |-> [i \in DOMAIN intent.filter_conditions |-> "RUNNING"]]
  ELSE [found |-> TRUE, api_method |-> ApiMethod(intent.primary_resource),
        requires_filtering |-> FALSE, filters |-> << >>]

\* nodes/planner.py:383-417 on a list template
ConvertTemplateToPlan(t, intent) ==
  [action |-> t.api_method, service |-> intent.oci_service,
   all_compartments |-> TRUE,
   filter_in_code |-> t.requires_filtering,
   filters |-> IF t.requires_filtering THEN t.filters ELSE << >>,
   safety_tier |-> "safe", requires_confirmation |-> FALSE]

\* nodes/planner.py:92-99: the template plan after _enforce_all_compartments
\* and _apply_safety_flags (planner.py:526-536; the action is a list_ method)
DirectFetchPlan(intent) ==
  LET plan == ConvertTemplateToPlan(GetTemplatePlan(intent), intent)
  IN  [plan EXCEPT !.requires_confirmation = intent.is_mutating,
                   !.safety_tier = IF intent.is_mutating THEN "destructive" ELSE "safe"]

\* the queries: "policies" is in resource_map but has no direct-fetch
\* pattern; "compartments" is not in resource_map
InitTemplate ==
  /\ InitGraph
  /\ pl = PlIdle
  /\ fs = FsIdle /\ gw = GwIdle /\ mem = MemIdle /\ ex = ExIdle
  /\ \E q \in [verb : {"list", "get", "none"},
               word : {"instances", "users", "policies", "compartments", "none"},
               indicator : BOOLEAN,
               cond : {"none", "running"}] :
       tw = [TwIdle EXCEPT !.pc = "analyze", !.query = q]

\* planner_node step 1, nodes/planner.py:41-50
TwAnalyze ==
  /\ tw.pc = "analyze"
  /\ \E lm \in AnalyzerLM :
       tw' = [tw EXCEPT !.pc = "route",
                        !.analysis = Analyze(tw.query, lm),
                        !.lm_calls = IF QuickAnalysis(tw.query).confidence = "high"
                                     THEN 0 ELSE 1]
  /\ UNCHANGED <<graphVars, pl, fs, gw, mem, ex>>

\* planner_node step 2 on the template strategy, nodes/planner.py:69-106
TwDirectFetch ==
  /\ tw.pc = "route"
  /\ tw.analysis.execution_type = "DIRECT_FETCH"
  /\ GetTemplatePlan(tw.analysis).found
  /\ LET runs2 == Append(tw.runs, [strategy |-> "direct_fetch",
                                    plan |-> DirectFetchPlan(tw.analysis),
                                    lm_calls |-> tw.lm_calls])
     IN  tw' = [tw EXCEPT !.pc = IF Len(runs2) = 2 THEN "done" ELSE "analyze",
                          !.runs = runs2]
  /\ UNCHANGED <<graphVars, pl, fs, gw, mem, ex>>

\* planner_node step 2 on the strategies that call the planning LM,
\* nodes/planner.py:75-81 and 110-113
TwLlmStrategy ==
  /\ tw.pc = "route"
  /\ ~(tw.analysis.execution_type = "DIRECT_FETCH" /\ GetTemplatePlan(tw.analysis).found)
  /\ LET runs2 == Append(tw.runs,
                     [strategy |-> IF tw.analysis.execution_type = "MULTI_STEP_REQUIRED"
                                   THEN "multi_step" ELSE "llm_fallback",
                      plan |-> [action |-> NoAction, service |-> "none",
                                all_compartments |-> FALSE,
                                filter_in_code |-> FALSE, filters |-> << >>,
                                safety_tier |-> "unset",
                                requires_confirmation |-> FALSE],
                      lm_calls |-> tw.lm_calls + 1])
     IN  tw' = [tw EXCEPT !.pc = IF Len(runs2) = 2 THEN "done" ELSE "analyze",
                          !.runs = runs2]
  /\ UNCHANGED <<graphVars, pl, fs, gw, mem, ex>>

SpecTemplate == InitTemplate /\ [][TwAnalyze \/ TwDirectFetch \/ TwLlmStrategy]_vars

(***************************************************************************)
(* SpecStore: the saves of MemoryStore, step by step.  A file's content is *)
(* the version of the data it was written from and how much of it is on    *)
(* disk: "complete", "empty" (open(path, 'w') has truncated it, nothing is *)
(* flushed yet) or "partial" (some of the text json.dump produced is       *)
(* flushed).  fs.writing is the file the running save has open.            *)
(***************************************************************************)
\* core/memory/store.py:26-27 (49-50, 72-73, 116-118): open(file_path, 'w')
\* truncates the file the save is about to write
StoreOpen ==
  /\ ~fs.crashed
  /\ fs.writing = "none"
  /\ fs.saves < MaxSaves
  /\ \E f \in StoreFiles :
       fs' = [fs EXCEPT !.writing = f,
                        !.content[f] = [ver |-> fs.saves + 1, part |-> "empty"]]
  /\ UNCHANGED <<graphVars, pl, tw, gw, mem, ex>>

\* core/memory/store.py:28 (51, 74, 119): json.dump writes the text piece by
\* piece into the open file; a full buffer is flushed before the last piece
StoreDump ==
  /\ ~fs.crashed
  /\ fs.writing # "none"
  /\ fs.content[fs.writing].part = "empty"
  /\ fs' = [fs EXCEPT !.content[fs.writing].part = "partial"]
  /\ UNCHANGED <<graphVars, pl, tw, gw, mem, ex>>

\* the with block ends: the rest is flushed, the file closed, the save
\* returns True (core/memory/store.py:27-29)
StoreClose ==
  /\ ~fs.crashed
  /\ fs.writing # "none"
  /\ fs' = [fs EXCEPT !.content[fs.writing].part = "complete",
                      !.writing = "none", !.saves = @ + 1]
  /\ UNCHANGED <<graphVars, pl, tw, gw, mem, ex>>

\* json.dump or a write raises (a circular reference, a full disk): the with
\* block closes the file as it is and the save returns False
\* (core/memory/store.py:30-32)
StoreDumpRaises ==
  /\ ~fs.crashed
  /\ fs.writing # "none"
  /\ fs' = [fs EXCEPT !.writing = "none", !.saves = @ + 1]
  /\ UNCHANGED <<graphVars, pl, tw, gw, mem, ex>>

\* the process is killed between two steps of a save
StoreCrash ==
  /\ ~fs.crashed
  /\ fs.writing # "none"
  /\ fs' = [fs EXCEPT !.writing = "none", !.crashed = TRUE]
  /\ UNCHANGED <<graphVars, pl, tw, gw, mem, ex>>

\* the app is started again on the memory directory as the crash left it
\* (core/memory/store.py:14-21)
StoreRestart ==
  /\ fs.crashed
  /\ fs' = [fs EXCEPT !.crashed = FALSE]
  /\ UNCHANGED <<graphVars, pl, tw, gw, mem, ex>>

\* the memory objects as MemoryManager.__init__ makes them
\* (core/memory/memory_manager.py:15-19), the memory directory as it is found
InitStore == InitGraph /\ pl = PlIdle /\ tw = TwIdle /\ fs = FsIdle /\ gw = GwIdle /\ mem = MemIdle /\ ex = ExIdle

SpecStore ==
  InitStore /\ [][StoreOpen \/ StoreDump \/ StoreClose \/ StoreDumpRaises
                  \/ StoreCrash \/ StoreRestart]_vars

(***************************************************************************)
(* SpecGateway: one call of call_llm (core/llm_manager.py:105-236) by a    *)
(* stage, provider by provider, and what the stage keeps of the answer.    *)
(* gw.tried lists the providers called, each with what its call did.       *)
(***************************************************************************)
\* core/llm_manager.py:147
AllProviders == <<"gemini", "openai", "anthropic", "groq">>

\* the fallback order without its `provider != selected_provider` test
ProvidersToTryUnfiltered(selected) == <<selected>> \o AllProviders

\* core/llm_manager.py:149-153
ProvidersToTry(selected) ==
  <<selected>> \o SelectSeq(AllProviders, LAMBDA p : p # selected)

\* the provider is one of the sidebar's four (app.py:272-284);
\* the stages followed: codegen_node keeps the answer as the plan's code,
\* presentation_node as the summary of a chat turn
InitGateway ==
  /\ InitGraph
  /\ pl = PlIdle
  /\ tw = TwIdle
  /\ fs = FsIdle
  /\ mem = MemIdle /\ ex = ExIdle
  /\ \E c \in {"codegen", "presentation_node"}, p \in Range(AllProviders) :
       gw = [GwIdle EXCEPT !.pc = "calling", !.caller = c, !.selected = p]

\* one pass of the loop, core/llm_manager.py:159-230; the provider call
\* gives an answer, an exception, or an exception with a rate-limit
\* signature (216-229)
GwTryProvider ==
  /\ gw.pc = "calling"
  /\ Len(gw.tried) < Len(ProvidersToTry(gw.selected))
  /\ \E o \in {"ok", "error", "rate_limit"} :
       LET p == ProvidersToTry(gw.selected)[Len(gw.tried) + 1]
           tried2 == Append(gw.tried, [provider |-> p, outcome |-> o])
       IN  gw' = IF o = "ok"
                 THEN [gw EXCEPT !.tried = tried2, !.pc = "returned", !.result = "text"]
                 ELSE [gw EXCEPT !.tried = tried2]
  /\ UNCHANGED <<graphVars, pl, tw, fs, mem, ex>>

\* the loop is over, core/llm_manager.py:232-236
GwAllFailed ==
  /\ gw.pc = "calling"
  /\ Len(gw.tried) = Len(ProvidersToTry(gw.selected))
  /\ gw' = [gw EXCEPT !.pc = "returned", !.result = "sentinel"]
  /\ UNCHANGED <<graphVars, pl, tw, fs, mem, ex>>

\* nodes/codegen_node.py:221-391: str(llm_output) is taken for the code,
\* rewritten by the regular expressions and stored as plan.oci_code
GwCodegenKeeps ==
  /\ gw.pc = "returned"
  /\ gw.caller = "codegen"
  /\ gw' = [gw EXCEPT !.pc = "done",
                      !.artifact = IF gw.result = "sentinel" THEN "sentinel" ELSE "code"]
  /\ UNCHANGED <<graphVars, pl, tw, fs, mem, ex>>

\* nodes/presentation_node.py:65-72 on a general_chat turn: the answer is
\* the summary
GwPresentationKeeps ==
  /\ gw.pc = "returned"
  /\ gw.caller = "presentation_node"
  /\ gw' = [gw EXCEPT !.pc = "done", !.summary = gw.result]
  /\ UNCHANGED <<graphVars, pl, tw, fs, mem, ex>>

SpecGateway ==
  InitGateway /\ [][GwTryProvider \/ GwAllFailed \/ GwCodegenKeeps
                    \/ GwPresentationKeeps]_vars

(***************************************************************************)
(* SpecShortTerm: ShortTermMemory (core/memory/short_term.py) under        *)
(* add_conversation_turn and add_recent_action.  An entry is the number of *)
(* the call that added it.                                                 *)
(***************************************************************************)
\* core/memory/short_term.py:41-43
RecentActionsCap == 10

\* add_conversation_turn keeping the first 20 entries instead of the last
AddConversationTurnKeepFirst(history, e) ==
  SubSeq(Append(history, e), 1,
         IF Len(history) + 1 <= ShortTermCap THEN Len(history) + 1 ELSE ShortTermCap)

\* core/memory/short_term.py:19-26
AddConversationTurn(history, e) == LastN(Append(history, e), ShortTermCap)

\* core/memory/short_term.py:36-43
AddRecentAction(actions, e) == LastN(Append(actions, e), RecentActionsCap)

StAddConversationTurn ==
  /\ mem.turns_added < MaxAdds
  /\ mem' = [mem EXCEPT !.turns_added = @ + 1,
                        !.conversation_history =
                           AddConversationTurn(@, mem.turns_added + 1)]
  /\ UNCHANGED <<graphVars, pl, tw, fs, gw, ex>>

StAddRecentAction ==
  /\ mem.actions_added < MaxAdds
  /\ mem' = [mem EXCEPT !.actions_added = @ + 1,
                        !.recent_actions = AddRecentAction(@, mem.actions_added + 1)]
  /\ UNCHANGED <<graphVars, pl, tw, fs, gw, ex>>

SpecShortTerm == InitStore /\ [][StAddConversationTurn \/ StAddRecentAction]_vars

(***************************************************************************)
(* SpecHistory: MemoryStore.save_conversation_turn on                      *)
(* memory/conversation_history.json (core/memory/store.py:92-136).  A      *)
(* record is the number of the save that returned True for it; mem.file is *)
(* the file: the records json.load finds in it, none when the text cannot  *)
(* be parsed.                                                              *)
(***************************************************************************)
\* core/memory/store.py:125-136: [] when the file is missing or when reading
\* it raises
LoadConversationHistory(file) ==
  IF file.readable THEN file.records ELSE << >>

\* the history written keeps the first 50 records instead of the last
SaveConversationTurnKeepOldest(file, rec) ==
  [readable |-> TRUE,
   records |-> SubSeq(Append(LoadConversationHistory(file), rec), 1,
                      IF Len(LoadConversationHistory(file)) + 1 <= HistoryCap
                        THEN Len(LoadConversationHistory(file)) + 1
                        ELSE HistoryCap)]

\* core/memory/store.py:106-119: load, append, keep the last 50, write
SaveConversationTurn(file, rec) ==
  [readable |-> TRUE,
   records |-> LastN(Append(LoadConversationHistory(file), rec), HistoryCap)]

\* a save that returns True (core/memory/store.py:92-120)
HsSave ==
  /\ mem.saved < MaxSavedTurns
  /\ mem' = [mem EXCEPT !.saved = @ + 1,
                        !.file = SaveConversationTurn(@, mem.saved + 1),
                        !.load_failed = @ \/ ~mem.file.readable]
  /\ UNCHANGED <<graphVars, pl, tw, fs, gw, ex>>

\* a save whose write is cut short after open(file_path, 'w') has emptied the
\* file (json.dump raises, or the process is killed): the text left does not
\* parse and the save returns False (core/memory/store.py:116-123)
HsWriteCut ==
  /\ mem.saved < MaxSavedTurns
  /\ mem' = [mem EXCEPT !.file = [readable |-> FALSE, records |-> << >>]]
  /\ UNCHANGED <<graphVars, pl, tw, fs, gw, ex>>

SpecHistory == InitStore /\ [][HsSave \/ HsWriteCut]_vars

(***************************************************************************)
(* SpecCache: one MemoryManager object (core/memory/memory_manager.py)     *)
(* with its MemoryCache (core/memory/cache.py) under any sequence of its   *)
(* gets and saves, of updates of the sources behind it, and a clock.  A    *)
(* value is the number of writes its source had seen when it was read;     *)
(* 0 is the empty dict or list of a source never written.  mem.last        *)
(* records what the last call did.  The four dictionaries of the cache     *)
(* share no entry; a run makes its gets on one of them, mem.reads, and its *)
(* writes on any source.  mem.dropped holds the keys whose entry a write    *)
(* has removed and no get has cached again.                                *)
(***************************************************************************)
\* core/memory/cache.py:17
CacheTtl == 300

\* core/memory/cache.py:82-90
IsCacheValid(timestamp, now) == now - timestamp < CacheTtl

\* core/memory/cache.py:27-32, 42-47, 57-62: {'data': ..., 'timestamp': now};
\* 72-80: {'recent_actions': ..., 'timestamp': now}, no 'data' key
CacheStore(kind, value, now) ==
  IF kind = "recent_actions"
    THEN [present |-> TRUE, timestamp |-> now, has_data |-> FALSE, data |-> 0,
          recent_actions |-> value]
    ELSE [present |-> TRUE, timestamp |-> now, has_data |-> TRUE, data |-> value,
          recent_actions |-> 0]

\* core/memory/cache.py:19-25, 34-40, 49-55: cache_data.get('data') of a valid
\* entry, else None; 64-70: cache_data.get('data', {}).get('recent_actions', [])
\* of a valid entry, else [].  hit tells a valid entry was found; the answer
\* of a miss is 0 (None or [])
CacheGet(kind, entry, now) ==
  IF entry.present /\ IsCacheValid(entry.timestamp, now)
    THEN [hit |-> TRUE,
          value |-> IF kind = "recent_actions"
                      THEN (IF entry.has_data THEN entry.recent_actions ELSE 0)
                      ELSE (IF entry.has_data THEN entry.data ELSE 0)]
    ELSE [hit |-> FALSE, value |-> 0]

\* what the caller put in the entry (the argument of cache_*)
CachedValue(kind, entry) ==
  IF kind = "recent_actions" THEN entry.recent_actions ELSE entry.data

\* the source behind each kind (core/memory/memory_manager.py:49, 64-65, 80, 95)
Backing(m, kind) ==
  CASE kind = "conversation" -> m.turns_added
    [] kind = "recent_actions" -> m.actions_added
    [] kind = "user_preferences" -> m.prefs_saved
    [] kind = "project_context" -> m.project_updates

\* invalidate_cache leaving every entry in place
InvalidateCacheKeepAll(cache, cache_type, identifier) == cache

\* core/memory/cache.py:92-116; identifier "" is the call without one
InvalidateCache(cache, cache_type, identifier) ==
  [k \in CacheKeys |->
     IF cache_type = "all"
       THEN NoEntry
       ELSE IF cache_type \in {"conversation", "user_preferences", "project_context"}
                 /\ k[1] = cache_type /\ (identifier = "" \/ k[2] = identifier)
              THEN NoEntry
              ELSE cache[k]]

\* the keys whose entry is in cache and no longer in after
Dropped(cache, after) == {k \in CacheKeys : cache[k].present /\ ~after[k].present}

\* writes made so far to the sources behind the cache
Writes(m) == m.turns_added + m.actions_added + m.prefs_saved + m.project_updates

InitCache ==
  /\ InitGraph
  /\ pl = PlIdle
  /\ tw = TwIdle
  /\ fs = FsIdle
  /\ gw = GwIdle
  /\ \E kind \in {"conversation", "user_preferences", "project_context", "recent_actions"} : mem = [MemIdle EXCEPT !.reads = kind]
  /\ ex = ExIdle

\* core/memory/memory_manager.py:41-100: get_conversation_context,
\* get_user_preferences, get_project_context, get_recent_actions.  `cached` is
\* the Python truth of the cache answer in `if cached:`: the conversation
\* context always has its three keys (core/memory/short_term.py:28-34);
\* another value is true when it is not empty
McGet ==
  \E k \in {c \in CacheKeys : c[1] = mem.reads} :
    LET kind == k[1]
        entry == mem.cache[k]
        got == CacheGet(kind, entry, mem.now)
        cached == got.hit /\ (kind = "conversation" \/ got.value > 0)
        value == Backing(mem, kind)
    IN  mem' = [mem EXCEPT
                  !.cache[k] = IF cached THEN @ ELSE CacheStore(kind, value, mem.now),
                  !.dropped = IF cached THEN @ ELSE @ \ {k},
                  !.last = [op |-> "get", kind |-> kind, id |-> k[2],
                            had_entry |-> entry.present,
                            age |-> IF entry.present THEN mem.now - entry.timestamp ELSE 0,
                            cached |-> CachedValue(kind, entry),
                            hit |-> got.hit, answer |-> got.value,
                            read_backing |-> ~cached,
                            returned |-> IF cached THEN got.value ELSE value,
                            invalidated |-> k \in mem.dropped]]
  /\ UNCHANGED <<graphVars, pl, tw, fs, gw, ex>>

\* core/memory/memory_manager.py:102-121
McSaveConversationTurn ==
  /\ Writes(mem) < MaxWrites
  /\ mem' = [mem EXCEPT
               !.turns_added = @ + 1,
               !.conversation_history = AddConversationTurn(@, mem.turns_added + 1),
               !.saved = @ + 1,
               !.file = SaveConversationTurn(@, mem.saved + 1),
               !.cache = InvalidateCache(@, "conversation", ""),
               !.dropped = @ \cup Dropped(mem.cache,
                                          InvalidateCache(mem.cache, "conversation", "")),
               !.last = [NoCall EXCEPT !.op = "save_conversation_turn"]]
  /\ UNCHANGED <<graphVars, pl, tw, fs, gw, ex>>

\* core/memory/memory_manager.py:145-158, with preferences in the state and
\* with none
McSaveUserPreferences ==
  /\ \E preferences \in BOOLEAN :
       IF preferences
         THEN /\ Writes(mem) < MaxWrites
              /\ mem' = [mem EXCEPT
                           !.prefs_saved = @ + 1,
                           !.cache = InvalidateCache(@, "user_preferences", "default_user"),
                           !.dropped = @ \cup Dropped(mem.cache,
                                InvalidateCache(mem.cache, "user_preferences",
                                                "default_user")),
                           !.last = [NoCall EXCEPT !.op = "save_user_preferences"]]
         ELSE mem' = [mem EXCEPT !.last = [NoCall EXCEPT !.op = "save_no_preferences"]]
  /\ UNCHANGED <<graphVars, pl, tw, fs, gw, ex>>

\* core/memory/short_term.py:36-43, on the manager's short_term
McAddRecentAction ==
  /\ Writes(mem) < MaxWrites
  /\ mem' = [mem EXCEPT
               !.actions_added = @ + 1,
               !.recent_actions = AddRecentAction(@, mem.actions_added + 1),
               !.last = [NoCall EXCEPT !.op = "add_recent_action"]]
  /\ UNCHANGED <<graphVars, pl, tw, fs, gw, ex>>

\* core/memory/long_term.py:32-39, on the manager's long_term
McUpdateProjectContext ==
  /\ Writes(mem) < MaxWrites
  /\ mem' = [mem EXCEPT
               !.project_updates = @ + 1,
               !.last = [NoCall EXCEPT !.op = "update_project_context"]]
  /\ UNCHANGED <<graphVars, pl, tw, fs, gw, ex>>

\* datetime.now() moves on by half the time to live
McTick ==
  /\ mem.ticks < MaxTicks
  /\ mem' = [mem EXCEPT !.ticks = @ + 1, !.now = @ + CacheTtl \div 2,
                        !.last = [NoCall EXCEPT !.op = "tick"]]
  /\ UNCHANGED <<graphVars, pl, tw, fs, gw, ex>>

SpecCache ==
  InitCache /\ [][McGet \/ McSaveConversationTurn \/ McSaveUserPreferences
                  \/ McAddRecentAction \/ McUpdateProjectContext \/ McTick]_vars

(***************************************************************************)
(* SpecLearn: LongTermMemory.learn_from_pattern                            *)
(* (core/memory/long_term.py:45-64, 136-149).  A payload is a dict over    *)
(* the keys 1..n, written as the tuple of its values; payloads of one size *)
(* differ on their first d keys.  An entry keeps the payload and the       *)
(* frequency; its timestamps are left out.  mem.learnt records the last    *)
(* call and the list it found.                                             *)
(***************************************************************************)
\* core/memory/memory_manager.py:132-136: action, parameters, context
ManagerKeys == 3

\* the payloads handed to learn_from_pattern: of each size (the empty dict,
\* the manager's, the largest), the dicts whose first d values are 1 and the
\* others 0
Payloads ==
  UNION {{[k \in 1..n |-> IF k <= d THEN 1 ELSE 0] : d \in 0..n} :
           n \in {0, ManagerKeys, MaxKeys}}

\* core/memory/long_term.py:136-149: no common key, not similar; else
\* similarity_score / len(common_keys) > 0.7.  The quotient of two small
\* integers is above the double 0.7 exactly when 10 * score > 7 * len
PatternsSimilar(pattern1, pattern2) ==
  LET common_keys == DOMAIN pattern1 \cap DOMAIN pattern2
      similarity_score == Cardinality({k \in common_keys : pattern1[k] = pattern2[k]})
  IN  IF common_keys = {}
        THEN FALSE
        ELSE 10 * similarity_score > 7 * Cardinality(common_keys)

\* core/memory/long_term.py:45-64, on the list of one pattern type: the first
\* entry of the list that is similar gets its frequency incremented; with
\* none, the payload is appended with frequency 1
LearnFromPattern(patterns, pattern_data) ==
  LET similar == {i \in DOMAIN patterns :
                    PatternsSimilar(patterns[i].data, pattern_data)}
  IN  IF similar # {}
        THEN [patterns EXCEPT
                ![CHOOSE i \in similar : \A j \in similar : i <= j].frequency = @ + 1]
        ELSE Append(patterns, [data |-> pattern_data, frequency |-> 1])

LtLearnFromPattern ==
  /\ mem.learns < MaxLearns
  /\ \E pattern_type \in PatternTypes, pattern_data \in Payloads :
       mem' = [mem EXCEPT
                 !.learns = @ + 1,
                 !.learning_patterns[pattern_type] = LearnFromPattern(@, pattern_data),
                 !.learnt = [op |-> "learn", type |-> pattern_type,
                             payload |-> pattern_data,
                             before |-> mem.learning_patterns[pattern_type]]]
  /\ UNCHANGED <<graphVars, pl, tw, fs, gw, ex>>

SpecLearn == InitStore /\ [][LtLearnFromPattern]_vars

(***************************************************************************)
(* Claims on a turn of the graph (Spec) and on a session (SpecSession).    *)
(***************************************************************************)
\* C1: confirmation gate.  When the Planner has emitted a plan whose
\* requires_confirmation is true, neither CodeGen nor Executor runs in the
\* turn unless the Supervisor has received an affirmative
\* confirmation_response for it.
C1_ConfirmationGate ==
  (hist.planned_rc /\ state.last_node \in {"codegen", "verifier", "executor"})
     => hist.approved

\* C2: the stages entered in a turn are at most 20, whatever the LM returns
\* and whichever strategy the Planner takes.
C2_StageEntriesBounded == entries <= 20

\* C3: every turn enters presentation_node; a turn does not end, and is not
\* cut off by the driver for cycling among earlier stages, before
\* Presentation has run.
C3_TurnReachesPresentation ==
  (node = "END" \/ (node = "aborted" /\ hist.abort = "recursion"))
     => hist.presented

\* C4: once presentation_node has run in a turn, the only stage entered
\* afterwards is memory_manager, at most once, and then the turn ends.
C4_OnlyMemoryManagerAfterPresentation ==
  hist.presented =>
     \/ node = "memory_manager" /\ hist.after_pres = << >>
     \/ node \in {"END", "aborted"}
          /\ hist.after_pres \in {<< >>, <<"memory_manager">>}

\* a turn that ended after Presentation and one memory_manager entry
C4_Witness ==
  /\ node = "END"
  /\ hist.presented
  /\ hist.after_pres = <<"memory_manager">>

\* C5: retry budget.  In a turn CodeGen is re-entered at most once because of
\* a Verifier failure and at most once because of an Executor failure, and
\* verify_retries never exceeds 1.
C5_RetryBudget ==
  /\ state.verify_retries <= 1
  /\ hist.cg_from_verifier <= 1
  /\ hist.cg_from_executor <= 1

\* a retryable executor error surfaced to Presentation
C5_Witness ==
  /\ hist.presented
  /\ state.last_node = "executor"
  /\ state.execution_error = "retryable"
  /\ state.presentation = "chat"
  /\ hist.cg_from_executor <= 1

\* C8: whenever presentation_node observes execution_result, every item of
\* it is an attribute map, on the live path and on the retrieval-hit path.
C8_ItemsAreAttributeMaps ==
  LET \* nodes/presentation_node.py:27-65: no interactive handler, no plan
      \* error, no chat or error summary takes the turn, so the data branch
      \* reads execution_result
      PresentationObserves ==
        /\ ~state.confirmation_required
        /\ ~state.action_cancelled
        /\ ~state.parameter_gathering_required
        /\ ~state.plan_error
        /\ state.intent # "general_chat"
        /\ state.execution_error = "none"
  IN  (node = "presentation_node" /\ PresentationObserves)
         => \A k \in ItemsOf(state.execution_result) : k = "dict"

\* C9: a turn recorded by memory_manager_node at the end of turn N is in the
\* conversation context that memory_context_node loads at the start of turn
\* N+1 of the session.
C9_MemoryRoundTrip ==
  (hist.prev_saved.present /\ entries >= 1 /\ state.memory_manager.present)
     => hist.prev_saved \in Range(state.recent_turns)

\* C10: a memory I/O failure never aborts a turn; the turn still reaches
\* Presentation.
C10_MemoryFailureNeverAborts ==
  /\ ~(node = "aborted" /\ hist.abort = "io")
  /\ (hist.io_failed /\ node = "END") => hist.presented

(***************************************************************************)
(* Claims on the resumption of a paused turn (SpecSession).                *)
(***************************************************************************)
\* C11: resume after confirmation.  When a turn paused on a confirmation
\* prompt is resumed with a confirmation_response that is yes, y, confirm or
\* proceed and a pending_plan, the Supervisor, entered first in the resumed
\* turn, routes to CodeGen with plan = pending_plan.
C11_ResumeAfterConfirmation ==
  (hist.resume = "confirm" /\ entries = 2) =>
     /\ node = "codegen"
     /\ hist.approved
     /\ state.plan = hist.resume_plan

\* C12: cancel after confirmation.  When a turn paused on a confirmation
\* prompt is resumed with a non-empty confirmation_response outside yes, y,
\* confirm, proceed, neither CodeGen nor Executor is entered in that turn and
\* the turn ends in a Presentation with action_cancelled set.
C12_CancelAfterConfirmation ==
  hist.resume = "cancel" =>
     /\ node \notin {"codegen", "verifier", "executor"}
     /\ state.last_node \notin {"codegen", "verifier", "executor"}
     /\ node = "END" => (hist.presented /\ state.action_cancelled)

C14_ExecutorSelfCorrection ==
  [][(/\ node = "executor"
      /\ state'.last_node = "executor"
      /\ IsRetryableError(state'.execution_error)
      /\ hist.cg_from_executor < 1)
     => node' = "supervisor"]_vars

\* C15: after the k-th Supervisor entry of a turn the merged state has
\* recursion_count = k.
C15_RecursionCountCountsEntries ==
  state.recursion_count = hist.sup_entries

C17_PlannerRetryBudget ==
  ~(node = "planner" /\ PlannerFailed(state) /\ hist.pl_retried)

\* C18: retrieval routing.  The rag_retriever stage routes to Presentation
\* with execution_result made of the documents if and only if the search
\* returned at least one non-blank document; otherwise it routes to the
\* Planner with the fallback strategy and rag_fallback set, and
\* normalized_query is what it was before the stage (user_input when it was
\* never set).
C18_RetrievalRouting ==
  [][node = "rag_retriever" =>
       LET docs == state'.rag_result
       IN  IF \E i \in DOMAIN docs : docs[i] # "blank"
           THEN /\ node' = "presentation_node"
                /\ state'.execution_result = [kind |-> "rag", items |-> docs]
                /\ state'.normalized_query = state.normalized_query
           ELSE /\ node' = "planner"
                /\ state'.execution_strategy = "rag_fallback_to_planner"
                /\ state'.rag_fallback
                /\ state'.execution_result = state.execution_result
                /\ state'.normalized_query =
                      IF state.normalized_query = "unset" THEN "user_input"
                      ELSE state.normalized_query]_vars

\* a search that returned only blank documents has fallen back to the planner
C18_Witness ==
  /\ node = "planner"
  /\ state.last_node = "rag_retriever"
  /\ state.rag_result # << >>
  /\ state.rag_fallback
  /\ state.execution_strategy = "rag_fallback_to_planner"

\* C19: template planning is deterministic.  Two runs of the Planner on the
\* same query, both classified DIRECT_FETCH with a matching template,
\* produce plans equal in every field (planning_time, not a field of the
\* plan, is left out), and neither run makes an LM call.
C19_TemplatePlanningDeterministic ==
  (/\ tw.pc = "done"
   /\ \A i \in 1..2 : tw.runs[i].strategy = "direct_fetch")
  => /\ tw.runs[1].plan = tw.runs[2].plan
     /\ \A i \in 1..2 : tw.runs[i].lm_calls = 0

\* C20: every MemoryStore save is atomic.  At every point of a save, and
\* after a crash or a failure between two of its steps, each file of the
\* memory directory holds a complete content: the previous one or the new.
C20_SavesAtomic ==
  \A f \in StoreFiles : fs.content[f].part = "complete"

\* C21: when every provider has failed, the '[ERROR: ...]' sentinel is never
\* stored by CodeGen as the plan's generated artifact and never returned as
\* a Presentation summary.
C21_SentinelIsStageFailure ==
  /\ gw.artifact # "sentinel"
  /\ gw.summary # "sentinel"

\* C30: LM gateway rotation.  The selected provider is called first, then
\* the remaining providers of the fixed list in its order, each at most
\* once; no provider is called after a successful one; the call ends with
\* the successful answer, or with the sentinel only after all four failed.
C30_GatewayRotation ==
  /\ gw.tried # << >> => gw.tried[1].provider = gw.selected
  /\ LET RankOf(p) ==
           CASE p = "gemini" -> 1 [] p = "openai" -> 2 [] p = "anthropic" -> 3
             [] OTHER -> 4
     IN  \A i, j \in DOMAIN gw.tried :
           i < j => /\ gw.tried[i].provider # gw.tried[j].provider
                    /\ gw.tried[i].outcome # "ok"
                    /\ i > 1 => RankOf(gw.tried[i].provider)
                                  < RankOf(gw.tried[j].provider)
  /\ gw.result = "text" => gw.tried[Len(gw.tried)].outcome = "ok"
  /\ gw.result = "sentinel" =>
        /\ {gw.tried[i].provider : i \in DOMAIN gw.tried} = Range(AllProviders)
        /\ \A i \in DOMAIN gw.tried : gw.tried[i].outcome # "ok"
  /\ gw.pc \in {"returned", "done"} => gw.result \in {"text", "sentinel"}

\* anthropic was selected and failed, gemini failed, openai answered
C30_Witness ==
  /\ gw.pc = "returned"
  /\ gw.selected = "anthropic"
  /\ Len(gw.tried) = 3
  /\ gw.tried[2].provider = "gemini"
  /\ gw.tried[3] = [provider |-> "openai", outcome |-> "ok"]
  /\ gw.result = "text"

\* C22: verifier self-correction loop.  When the Verifier rejects an
\* artifact and verify_retries < 1, the stage entered next is the Supervisor
\* (which then hands the critique to CodeGen); with the budget spent the
\* turn goes to Presentation.
C22_VerifierSelfCorrection ==
  [][(/\ node = "verifier"
      /\ state'.last_node = "verifier"
      /\ state'.next_step # "executor")
     => IF state.verify_retries < 1
        THEN node' = "supervisor"
        ELSE node' \in {"supervisor", "presentation_node"}]_vars

C24_GatheringUsesVerifiedMissing ==
  (/\ state.last_node = "planner"
   /\ state.parameter_gathering_required
   /\ state.pending_plan.present
   /\ state.pending_plan.action \in KnownActions)
  => state.missing_parameters = state.pending_plan.missing_parameters

\* C25: short-term memory is a ring buffer.  After any sequence of
\* add_conversation_turn and add_recent_action calls, conversation_history
\* holds the last 20 entries added (all of them when fewer were added) and
\* recent_actions the last 10, in insertion order.
C25_ShortTermRingBuffer ==
  /\ Len(mem.conversation_history) =
        (IF mem.turns_added <= 20 THEN mem.turns_added ELSE 20)
  /\ \A i \in DOMAIN mem.conversation_history :
        mem.conversation_history[i] =
           mem.turns_added - Len(mem.conversation_history) + i
  /\ Len(mem.recent_actions) =
        (IF mem.actions_added <= 10 THEN mem.actions_added ELSE 10)
  /\ \A i \in DOMAIN mem.recent_actions :
        mem.recent_actions[i] = mem.actions_added - Len(mem.recent_actions) + i

\* both lists have dropped their oldest entries
C25_Witness ==
  /\ mem.turns_added = 22
  /\ Len(mem.conversation_history) = 20
  /\ mem.conversation_history[1] = 3
  /\ mem.actions_added = 12
  /\ Len(mem.recent_actions) = 10
  /\ mem.recent_actions[1] = 3

\* C26: after any sequence of save_conversation_turn calls
\* conversation_history.json holds at most 50 records and they are the most
\* recently saved ones in order: a run of consecutive records that ends with
\* the last one saved, so that no record dropped is more recent than one
\* kept, also after a save that could not load the existing history.
C26_HistoryKeepsMostRecent ==
  /\ Len(mem.file.records) <= 50
  /\ Len(mem.file.records) <= mem.saved
  /\ \A i \in DOMAIN mem.file.records :
        mem.file.records[i] = mem.saved - Len(mem.file.records) + i
  /\ (mem.file.readable /\ ~mem.load_failed) =>
        Len(mem.file.records) = (IF mem.saved <= 50 THEN mem.saved ELSE 50)

\* a save has failed to load the history, and later saves have filled the
\* file beyond 50 records
C26_Witness ==
  /\ mem.load_failed
  /\ mem.saved = 52
  /\ mem.file.readable
  /\ Len(mem.file.records) = 50
  /\ mem.file.records[1] = 3

\* C27: read-through cache with a time to live.  For each cache kind, a get
\* made while the entry is present (cached and not invalidated since) and
\* younger than 300 s is answered by the cache with the value that was
\* cached; any other get is a miss, and MemoryManager reads the backing
\* source, returns its value and caches it again.
C27_ReadThroughTtl ==
  mem.last.op = "get" =>
    IF mem.last.had_entry /\ mem.last.age < 300
      THEN mem.last.hit /\ mem.last.answer = mem.last.cached
      ELSE /\ ~mem.last.hit
           /\ mem.last.read_backing
           /\ mem.last.returned = Backing(mem, mem.last.kind)
           /\ mem.cache[<<mem.last.kind, mem.last.id>>].present
           /\ mem.cache[<<mem.last.kind, mem.last.id>>].timestamp = mem.now
           /\ CachedValue(mem.last.kind, mem.cache[<<mem.last.kind, mem.last.id>>])
                = mem.last.returned

C29_SimilarityThreshold ==
  mem.learnt.op = "learn" =>
    LET before == mem.learnt.before
        after == mem.learning_patterns[mem.learnt.type]
        new == mem.learnt.payload
        Overlaps(old) ==
          /\ DOMAIN old \cap DOMAIN new # {}
          /\ 10 * Cardinality({k \in DOMAIN old \cap DOMAIN new : old[k] = new[k]})
                >= 7 * Cardinality(DOMAIN old \cap DOMAIN new)
    IN  IF \E i \in DOMAIN before : Overlaps(before[i].data)
          THEN \E i \in DOMAIN before :
                 /\ Overlaps(before[i].data)
                 /\ after = [before EXCEPT ![i].frequency = @ + 1]
          ELSE after = Append(before, [data |-> new, frequency |-> 1])

(***************************************************************************)
(* SpecExecutor: one run of executor_node on a plan.                       *)
(*   plan      kind "none" (no plan, or an empty one), "single" or "multi";*)
(*             oci_code of a single plan; compartment_id: the plan's       *)
(*             params carry one; steps, each with its number, whether it   *)
(*             has oci_code and whether its params are a dict or null      *)
(*   tenancy   state["oci_creds"] has a tenancy                            *)
(*   i, all_results, execution_errors   the locals of the loop of          *)
(*             _execute_multi_step_plan                                    *)
(*   entered, ran, outcome   observed only: the steps the loop entered,    *)
(*             the steps (0 for a single plan) whose generated code was    *)
(*             run, and what each entered step gave                        *)
(*   overlay   what executor_node returns                                  *)
(* A result item is tagged with its step and its place in that step's      *)
(* result, so that the order of a combined list can be read off it.        *)
(***************************************************************************)
\* the mutation of ExecuteSingleStep that runs the code without looking for
\* the tenancy
ExecuteSingleStepAnyCreds(n, step_plan, tenancy, out) ==
  IF ~step_plan.oci_code
  THEN [execution_error |-> "No OCI code found in step.", has_result |-> FALSE,
        execution_result |-> << >>, ran |-> FALSE]
  ELSE IF out.raises
  THEN [execution_error |-> "Step execution failed", has_result |-> FALSE,
        execution_result |-> << >>, ran |-> TRUE]
  ELSE [execution_error |-> "none", has_result |-> TRUE,
        execution_result |->
          [j \in 1..Len(out.raw) |->
             [step |-> n, place |-> j, item |-> SanitizeResults(out.raw)[j]]],
        ran |-> TRUE]

\* nodes/executor.py:248-330; out: the generated code raises, or the items
\* it leaves in `result`
ExecuteSingleStep(n, step_plan, tenancy, out) ==
  IF ~step_plan.oci_code
  THEN [execution_error |-> "No OCI code found in step.", has_result |-> FALSE,
        execution_result |-> << >>, ran |-> FALSE]
  ELSE IF ~tenancy
  THEN [execution_error |-> "Missing tenancy in state['oci_creds'].",
        has_result |-> FALSE, execution_result |-> << >>, ran |-> FALSE]
  ELSE IF out.raises
  THEN [execution_error |-> "Step execution failed", has_result |-> FALSE,
        execution_result |-> << >>, ran |-> TRUE]
  ELSE [execution_error |-> "none", has_result |-> TRUE,
        execution_result |->
          [j \in 1..Len(out.raw) |->
             [step |-> n, place |-> j, item |-> SanitizeResults(out.raw)[j]]],
        ran |-> TRUE]

\* the mutation of CollectStep that puts a step's results before the ones
\* already collected
CollectStepPrepends(all_results, execution_errors, n, step_result) ==
  IF step_result.execution_error # "none"
  THEN [all_results |-> all_results,
        execution_errors |-> Append(execution_errors,
                                    [step |-> n, error |-> step_result.execution_error])]
  ELSE [all_results |-> step_result.execution_result \o all_results,
        execution_errors |-> execution_errors]

\* nodes/executor.py:223-227
CollectStep(all_results, execution_errors, n, step_result) ==
  IF step_result.execution_error # "none"
  THEN [all_results |-> all_results,
        execution_errors |-> Append(execution_errors,
                                    [step |-> n, error |-> step_result.execution_error])]
  ELSE [all_results |-> all_results \o step_result.execution_result,
        execution_errors |-> execution_errors]

\* a plan reaches executor_node: none, a single-step one with or without
\* oci_code, or one with a list of steps
InitExecutor ==
  /\ InitGraph
  /\ pl = PlIdle /\ tw = TwIdle /\ fs = FsIdle /\ gw = GwIdle /\ mem = MemIdle
  /\ \E kind \in {"none", "single", "multi"}, code \in BOOLEAN, cid \in BOOLEAN,
        tenancy \in BOOLEAN, n \in 0..MaxSteps :
       \E codes \in [1..n -> BOOLEAN], kinds \in [1..n -> {"dict", "null"}] :
         /\ kind # "multi" => n = 0 /\ ~cid
         /\ kind # "single" => ~code
         /\ ex = [ExIdle EXCEPT
                    !.pc = "entered",
                    !.plan = [kind |-> kind, oci_code |-> code,
                              compartment_id |-> cid,
                              steps |-> [k \in 1..n |->
                                           [oci_code |-> codes[k],
                                            params_kind |-> kinds[k]]]],
                    !.tenancy = tenancy]

\* nodes/executor.py:14-139 on a plan without a list of steps
ExSingle ==
  /\ ex.pc = "entered"
  /\ ex.plan.kind # "multi"
  /\ \E out \in {[raises |-> TRUE, raw |-> << >>]} \cup
               {[raises |-> FALSE, raw |-> r] : r \in RawItems} :
       LET r == IF ex.plan.kind = "none"
                THEN [execution_error |-> "No plan to execute.",
                      has_result |-> FALSE, execution_result |-> << >>,
                      ran |-> FALSE]
                ELSE IF ~ex.plan.oci_code
                THEN [execution_error |-> "No OCI code found in plan.",
                      has_result |-> FALSE, execution_result |-> << >>,
                      ran |-> FALSE]
                ELSE IF ~ex.tenancy
                THEN [execution_error |-> "Missing tenancy in state['oci_creds'].",
                      has_result |-> FALSE, execution_result |-> << >>,
                      ran |-> FALSE]
                ELSE IF out.raises
                THEN [execution_error |-> "exception", has_result |-> FALSE,
                      execution_result |-> << >>, ran |-> TRUE]
                ELSE [execution_error |-> "none", has_result |-> TRUE,
                      execution_result |->
                        [j \in 1..Len(out.raw) |->
                           [step |-> 0, place |-> j,
                            item |-> SanitizeResults(out.raw)[j]]],
                      ran |-> TRUE]
       IN  ex' = [ex EXCEPT
                    !.pc = "returned",
                    !.ran = IF r.ran THEN <<0>> ELSE << >>,
                    !.overlay = [has_result |-> r.has_result,
                                 execution_result |-> r.execution_result,
                                 execution_error |-> r.execution_error]]
  /\ UNCHANGED <<graphVars, pl, tw, fs, gw, mem>>

\* nodes/executor.py:203-232, one pass of the loop over the steps; a step
\* whose params are null makes line 217 raise when the plan carries a
\* compartment_id, and line 229 catches it
ExStep ==
  /\ ex.pc = "entered"
  /\ ex.plan.kind = "multi"
  /\ ex.i <= Len(ex.plan.steps)
  /\ \E out \in {[raises |-> TRUE, raw |-> << >>]} \cup
               {[raises |-> FALSE, raw |-> r] : r \in RawItems} :
       LET step == ex.plan.steps[ex.i]
           step_result ==
             IF ex.plan.compartment_id /\ step.params_kind = "null"
             THEN [execution_error |-> "failed", has_result |-> FALSE,
                   execution_result |-> << >>, ran |-> FALSE]
             ELSE ExecuteSingleStep(ex.i, step, ex.tenancy, out)
           c == CollectStep(ex.all_results, ex.execution_errors, ex.i, step_result)
       IN  ex' = [ex EXCEPT
                    !.i = @ + 1,
                    !.all_results = c.all_results,
                    !.execution_errors = c.execution_errors,
                    !.entered = Append(@, ex.i),
                    !.ran = IF step_result.ran THEN Append(@, ex.i) ELSE @,
                    !.outcome = Append(@, step_result)]
  /\ UNCHANGED <<graphVars, pl, tw, fs, gw, mem>>

\* nodes/executor.py:234-245, the combined overlay
ExReturn ==
  /\ ex.pc = "entered"
  /\ ex.plan.kind = "multi"
  /\ ex.i > Len(ex.plan.steps)
  /\ ex' = [ex EXCEPT
              !.pc = "returned",
              !.overlay = [has_result |-> TRUE,
                           execution_result |-> ex.all_results,
                           execution_error |->
                             IF ex.execution_errors # << >>
                             THEN "Multi-step execution completed with errors"
                             ELSE "none"]]
  /\ UNCHANGED <<graphVars, pl, tw, fs, gw, mem>>

SpecExecutor == InitExecutor /\ [][ExSingle \/ ExStep \/ ExReturn]_vars

\* C31: a multi-step run enters the steps in declared order, each once,
\* whatever the earlier steps gave; when it returns, execution_result is the
\* results of the steps that succeeded, concatenated in step order, and one
\* error is collected for each step that failed
C31_MultiStepOrder ==
  ex.plan.kind = "multi" =>
    /\ ex.entered = [k \in 1..(ex.i - 1) |-> k]
    /\ ex.pc = "returned" =>
         LET n == Len(ex.plan.steps)
             ok == {k \in 1..n : ex.outcome[k].execution_error = "none"}
             er == ex.overlay.execution_result
         IN  /\ Len(ex.entered) = n
             /\ \A k \in 1..Len(er) :
                   /\ er[k].step \in ok
                   /\ er[k] = ex.outcome[er[k].step].execution_result[er[k].place]
             /\ \A k \in ok : \A j \in 1..Len(ex.outcome[k].execution_result) :
                   \E m \in 1..Len(er) : er[m].step = k /\ er[m].place = j
             /\ \A a, b \in 1..Len(er) :
                   a < b => \/ er[a].step < er[b].step
                            \/ er[a].step = er[b].step /\ er[a].place < er[b].place
             /\ Len(ex.execution_errors) = n - Cardinality(ok)
             /\ \A k \in 1..n \ ok :
                   \E m \in 1..Len(ex.execution_errors) :
                      ex.execution_errors[m].step = k
             /\ ex.overlay.execution_error # "none" <=> ok # 1..n

\* a run of two steps whose first step failed and whose second gave items,
\* or whose two steps both gave items
C31_Witness ==
  /\ ex.pc = "returned"
  /\ ex.plan.kind = "multi"
  /\ Len(ex.plan.steps) = 2
  /\ ex.outcome[2].execution_result # << >>
  /\ \/ ex.outcome[1].execution_error # "none"
     \/ ex.outcome[1].execution_result # << >>

\* C32: when the Presentation follows a multi-step execution that left both
\* results and an execution_error, it carries the results as data (the
\* "table" presentation) instead of the error text alone
C32_PartialFailurePresented ==
  ( /\ hist.presented
    /\ state.last_node = "executor"
    /\ state.plan.has_steps
    /\ state.execution_result.items # << >>
    /\ state.execution_error # "none" )
  => state.presentation = "table"

\* C33: a Presentation step leaves next_step = user_input_required exactly
\* when the presentation it produced is an interactive one (of the
\* interactive overlays, the safety confirmation and the parameter gathering
\* are the ones whose state keys AgentState carries)
C33_InteractiveMarksUserInput ==
  [][Presentation =>
       ( state'.next_step = "user_input_required"
         <=> state'.presentation \in {"confirmation", "parameter_gathering"} )]_vars

\* C34: when a turn has ended, the session the next turn is started from
\* (app.py:800-805) holds a pending_plan exactly when the turn ended awaiting
\* the user's input, and holds a confirmation_response only then
C34_PendingPlanOnlyWhileAwaiting ==
  node \in {"END", "aborted"} =>
    LET awaited == state.confirmation_required
                     \/ state.parameter_gathering_required
    IN  /\ sess.pending_plan.present <=> awaited
        /\ sess.confirmation_response # "none" => awaited

\* C35: when the Supervisor, entered from the Planner with a plan, finds
\* compartment_id to be the one missing parameter, the graph goes on to the
\* Planner (for the compartment listing) and not to the Presentation
C35_CompartmentPickDispatched ==
  [][( /\ Supervisor
       /\ state.last_node = "planner"
       /\ state.plan.present /\ ~state.plan_error
       /\ state'.missing_parameters = <<"compartment_id">> )
     => node' = "planner"]_vars

C37_CodegenKeepsSafetyDecision ==
  [][(PlanCodegen /\ pl'.pc = "coded") =>
       /\ pl'.plan.safety_tier = pl.plan.safety_tier
       /\ pl'.plan.requires_confirmation = pl.plan.requires_confirmation]_vars

\* C38: whenever the graph is about to enter the Executor, the plan of the
\* state has no missing parameter
C38_ExecutorPlanComplete ==
  node = "executor" =>
    ~(state.plan.has_missing /\ state.plan.missing_parameters # << >>)

\* C39: no step out of the supervisor, the normalizer, the rag_retriever or
\* the planner ends with the driver failing on a next_step that the stage's
\* conditional edge does not map
C39_RoutingKeysValid ==
  [][(node \in {"supervisor", "normalizer", "rag_retriever", "planner"})
       => (hist'.abort # "route")]_vars

\* the planner has run and its overlay had no next_step: the edge read the
\* "planner" an earlier stage had left and entered the planner again
C39_Witness ==
  /\ node = "planner"
  /\ state.last_node = "planner"
  /\ state.next_step = "planner"
  /\ state.plan.present
  /\ hist.abort = "none"

====
